---- MODULE Spec2Model ----
(***************************************************************************)
(* State-machine model of the restausys ordering, kitchen-ticket, payment, *)
(* inventory, attendance, point-of-sale, WebSocket, admin and loyalty code *)
(* (core/views.py, core/pos_views.py, core/models.py, core/signals.py,     *)
(* core/utils.py, core/consumers.py, core/admin.py).                       *)
(*                                                                         *)
(* Decimal amounts are modelled as integers (one unit = one currency       *)
(* unit; the loyalty amounts are in hundredths); None/NULL is the value    *)
(* Null, which no amount or id can take.                                   *)
(***************************************************************************)
EXTENDS Integers, Sequences, FiniteSets, TLC

\* ------------------------------------------------------------------------
\* Bounds of the model
\* ------------------------------------------------------------------------
MaxOrders == 2
MaxKdsOrders == 2
MaxPayOrders == 1
MaxPriceOrders == 1
MaxPosOrders == 2
MaxSaleOrders == 3
MaxConns == 2
MaxAddOrders == 3
MaxChat == 2
MaxInbox == 4
MaxText == 2
MaxHistory == 52
MaxExports == 2
MaxPayments == 2
MaxStockOrders == 3
MaxSpent == 6100
MaxLines == 2
MaxQty == 2
MaxDay == 2
MaxNow == 4

\* ------------------------------------------------------------------------
\* Data the model starts from
\* ------------------------------------------------------------------------
Null == -1

MenuIds == {1, 2}
BadMenuId == 3
VariantIds == {1}
Ingredients == {1, 2}
CustomerIds == {1, 2}
TableIds == {1, 2}
BadTableToken == 3
StaffIds == {1, 2}
PriceVals == {0, 2}
ChargeVals == {0, 1}

\* Order.Status
OrderStatuses == {"PLACED", "IN_PROGRESS", "READY", "SERVED", "PAID", "CANCELED", "COMPLETED"}

TicketStatuses == {"PENDING", "PREPARING", "READY"}
TicketStatusReady == "READY"
TicketStatusDefault == "PENDING"
TableStatusOccupied == "occupied"

\* MenuItem.quantity, the stock counter of the direct sale
MenuStock == 3

InitStock(i) == IF i = 1 THEN 5 ELSE 1

\* RecipeItem rows: quantity_used of ingredient i per serving of menu item m
\* (0 = the recipe has no row for i).
RecipeQty(m, i) ==
    IF m = 1 /\ i = 1 THEN 2
    ELSE IF m = 1 /\ i = 2 THEN 1
    ELSE IF m = 2 /\ i = 1 THEN 1
    ELSE 0

VARIABLES
    menu,        \* MenuItem rows: id -> [base_price, is_active, quantity]
    variants,    \* MenuVariant rows: id -> [price_modifier]
    inventory,   \* InventoryItem rows: ingredient -> quantity
    tables,      \* Table rows: id -> [status]
    orders,      \* Order rows, pk = index: [table, status, tax, service_charge]
    orderItems,  \* OrderItem rows, pk = index
    tickets,     \* KitchenTicket rows, pk = index: [order_item, status]
    payments,    \* Payment rows, pk = index: [order, amount, status]
    attendance,  \* Attendance rows, pk = index: [staff, date, clock_in, clock_out]
    today,       \* timezone.now().date()
    now,         \* timezone.now()
    reqs,        \* in-flight requests of the worker processes: process -> local state
    connections, \* WebSocket connections, index = channel:
                 \* [kind, group, table, user, open, disconnected, inbox]
    chatMessages,\* ChatMessage rows, pk = index: [sender, content, timestamp]
    auditLog,    \* lines of the "audit" logger: [user, count]
    customers,   \* Customer rows: id -> [loyalty_points, total_spent]
    sent,        \* events published to the channel layer by the last request
    last         \* the last request handled and its outcome

vars == <<menu, variants, inventory, tables, orders, orderItems, tickets,
          payments, attendance, today, now, reqs, connections, chatMessages,
          auditLog, customers, sent, last>>

orderVars == <<menu, variants, inventory, tables, orders, orderItems, tickets, payments>>
clockVars == <<attendance, today, now, reqs>>
wsVars == <<connections, chatMessages>>
adminVars == <<auditLog, customers>>

Max(a, b) == IF a >= b THEN a ELSE b

\* What `last` keeps of a submitted list of lines: its length, the number of
\* lines with quantity > 0, and whether some line names no active menu item.
NoLine == [n |-> 0, npos |-> 0, bad |-> FALSE]

\* An inbound chat frame: json is "invalid" (not JSON), "array" (JSON, not an
\* object) or "object"; has tells what the object holds under "message"
\* ("absent", "null", "number" or "string"); text is the string, as a
\* sequence of characters.
NoPayload == [json |-> "invalid", has |-> "absent", text |-> << >>]

\* request.user of an admin request: the AnonymousUser, or a CustomUser row
\* with its role, its company and the restaurant the person works at.
NoUser == [username |-> "", authenticated |-> FALSE, is_superuser |-> FALSE,
           role |-> "", company |-> Null, restaurant |-> Null, perms |-> {}]

\* result: "success", "noop", "rejected", "http400", "http404" or "error500";
\* layer: what the channel layer did during the request ("up": it accepted
\* every publish, "none": get_channel_layer() returned None, "down":
\* group_send raised); printers: the targets send_to_printer was called for;
\* failing: the printer targets that were unreachable.
Last(op, result, order, ticket, req) ==
    [op |-> op, result |-> result, order |-> order, ticket |-> ticket, req |-> req,
     staff |-> Null, layer |-> "up", status |-> "", table |-> Null,
     action |-> "", printers |-> {}, failing |-> {}, channel |-> Null,
     payload |-> NoPayload, user |-> NoUser, panel |-> "", perm |-> "",
     permission |-> "", rows |-> {}, customer |-> Null, amount |-> 0]

LastClock(result, staff) ==
    [Last("clock", result, Null, Null, NoLine) EXCEPT !.staff = staff]

Event(group, type, event) == [group |-> group, type |-> type, event |-> event]

\* ------------------------------------------------------------------------
\* models.py
\* ------------------------------------------------------------------------

\* the model fields of Table; is_occupied is a property, not a field
TableFields == {"restaurant", "table_number", "capacity", "access_token",
                "coordinates", "qr_code", "status"}

\* Table.is_occupied (read-only property)
is_occupied(t) == tables[t].status \notin {"available", "paid"}

ItemsOf(items, o) == {i \in 1..Len(items) : items[i].order = o}

RECURSIVE SumFinalUpTo(_, _, _)
SumFinalUpTo(items, o, n) ==
    IF n = 0 THEN 0
    ELSE SumFinalUpTo(items, o, n - 1)
         + (IF items[n].order = o THEN items[n].final_price ELSE 0)

\* Order.total_price(): sum(item.final_price for item in self.items.all())
\*                      + self.tax + self.service_charge
total_price_NoServiceCharge(o) ==
    SumFinalUpTo(orderItems, o, Len(orderItems)) + orders[o].tax

total_price(o) ==
    SumFinalUpTo(orderItems, o, Len(orderItems)) + orders[o].tax + orders[o].service_charge

\* One term of OrderManager.annotate_with_total_price: quantity * (base_price
\* + variant.price_modifier) over the LEFT JOIN; NULL when the item has no
\* variant.
AnnotatedTerm(it) ==
    IF it.variant = Null THEN Null
    ELSE it.quantity * (menu[it.menu_item].base_price + variants[it.variant].price_modifier)

RECURSIVE SumAnnotatedUpTo(_, _)
SumAnnotatedUpTo(o, n) ==
    IF n = 0 THEN 0
    ELSE SumAnnotatedUpTo(o, n - 1)
         + (IF orderItems[n].order = o /\ AnnotatedTerm(orderItems[n]) # Null
            THEN AnnotatedTerm(orderItems[n]) ELSE 0)

\* OrderManager.annotate_with_total_price: SQL SUM skips NULL terms and is
\* NULL when no term is non-NULL.
calculated_total(o) ==
    IF \E i \in ItemsOf(orderItems, o) : AnnotatedTerm(orderItems[i]) # Null
    THEN SumAnnotatedUpTo(o, Len(orderItems))
    ELSE Null

\* OrderItem.save: final_price is computed when the stored value is falsy.
OrderItemSave(it) ==
    LET base_price == IF it.variant # Null
                      THEN variants[it.variant].price_modifier
                      ELSE menu[it.menu_item].base_price
    IN  IF it.final_price = 0
        THEN [it EXCEPT !.final_price = base_price * it.quantity]
        ELSE it

\* ------------------------------------------------------------------------
\* signals.py
\* ------------------------------------------------------------------------

\* deduct_stock (post_save of a created OrderItem)
deduct_stock_NoClamp(inv, m, q) ==
    [i \in Ingredients |->
        IF RecipeQty(m, i) > 0 THEN inv[i] - RecipeQty(m, i) * q ELSE inv[i]]

deduct_stock(inv, m, q) ==
    [i \in Ingredients |->
        IF RecipeQty(m, i) > 0 THEN Max(inv[i] - RecipeQty(m, i) * q, 0) ELSE inv[i]]

\* assign_table_if_missing (pre_save of an Order): the table it assigns, Null
\* when it assigns none. pk is instance.pk, which Order.id's default
\* (uuid.uuid4) sets when the instance is built; the lookup filters on
\* is_occupied and orders by number, which are not fields of Table, so it
\* raises FieldError inside the handler's try/except.
FirstAvailableTable ==
    IF "is_occupied" \notin TableFields \/ "number" \notin TableFields THEN Null
    ELSE IF \E t \in TableIds : ~is_occupied(t)
    THEN CHOOSE t \in TableIds :
            ~is_occupied(t) /\ \A u \in TableIds : ~is_occupied(u) => t <= u
    ELSE Null

assign_table_if_missing(pk, table, restaurant) ==
    IF pk # Null \/ table # Null \/ restaurant = Null THEN Null
    ELSE FirstAvailableTable

\* notify_on_order_update (post_save of an Order): the events it publishes.
\* previous_status is what store_previous_order_status read from the
\* database just before the save.
NotifyEvents_IgnorePrevious(created, previous_status, status) ==
    IF created
    THEN << Event("kitchen_display", "send_order_update", "order_update"),
            Event("pos_system", "send_pos_update", "order_created"),
            Event("customer_display", "send_display_update", "order_created") >>
    ELSE IF status = "IN_PROGRESS"
    THEN << Event("kitchen_display", "send_order_update", "order_update") >>
    ELSE IF status = "READY"
    THEN << Event("pos_system", "send_pos_update", "order_ready"),
            Event("customer_display", "send_display_update", "order_ready") >>
    ELSE IF status \in {"COMPLETED", "PAID"}
    THEN << Event("pos_system", "send_pos_update", "order_completed"),
            Event("customer_display", "send_display_update", "order_completed") >>
    ELSE << >>

NotifyEvents(created, previous_status, status) ==
    IF created
    THEN << Event("kitchen_display", "send_order_update", "order_update"),
            Event("pos_system", "send_pos_update", "order_created"),
            Event("customer_display", "send_display_update", "order_created") >>
    ELSE IF previous_status = status THEN << >>
    ELSE IF status = "IN_PROGRESS"
    THEN << Event("kitchen_display", "send_order_update", "order_update") >>
    ELSE IF status = "READY"
    THEN << Event("pos_system", "send_pos_update", "order_ready"),
            Event("customer_display", "send_display_update", "order_ready") >>
    ELSE IF status \in {"COMPLETED", "PAID"}
    THEN << Event("pos_system", "send_pos_update", "order_completed"),
            Event("customer_display", "send_display_update", "order_completed") >>
    ELSE << >>

\* notify_on_order_update, table release: `table.is_occupied = False` assigns
\* to the read-only property Table.is_occupied and raises AttributeError.
NotifyRaises(created, previous_status, status, table) ==
    /\ ~created
    /\ previous_status # status
    /\ status \in {"COMPLETED", "PAID"}
    /\ table # Null
    /\ is_occupied(table)

\* ------------------------------------------------------------------------
\* utils.py
\* ------------------------------------------------------------------------

\* broadcast_kitchen_ticket: one kitchen_update event on kitchen_display
\* (send_to_printer is None: core.utils imports it from itself).
broadcast_kitchen_ticket(action) ==
    << Event("kitchen_display", "kitchen_update", action) >>

\* `from core.utils import send_to_printer` at the top of core/utils.py
\* imports the module from itself while it is being initialised: ImportError,
\* and send_to_printer is None.
SendToPrinterCallable == FALSE

\* getattr(menu_item, "is_drink", False): MenuItem has no such attribute
MenuItemIsDrink == FALSE

PrinterTargets == {"kitchen", "drinks", "pos"}

\* broadcast_kitchen_ticket with its side channels: the events it publishes
\* and the printer targets it calls send_to_printer for. The whole body is
\* one try block, so an exception of group_send skips the printing section;
\* each send_to_printer call has a try block of its own.
KitchenTicketSideChannels(action, layer) ==
    IF layer = "none" THEN [sent |-> << >>, printers |-> {}]
    ELSE IF layer = "down" THEN [sent |-> << >>, printers |-> {}]
    ELSE [sent |-> broadcast_kitchen_ticket(action),
          printers |-> IF action = "create" /\ SendToPrinterCallable
                       THEN {IF MenuItemIsDrink THEN "drinks" ELSE "kitchen", "pos"}
                       ELSE {}]

\* broadcast_kitchen_ticket called for a stored ticket
BroadcastTicket(ticket_id, action, layer, failing) ==
    /\ ticket_id \in 1..Len(tickets)
    /\ LET out == KitchenTicketSideChannels(action, layer)
       IN  /\ sent' = out.sent
           /\ last' = [Last("broadcast", "success", Null, ticket_id, NoLine)
                          EXCEPT !.layer = layer, !.action = action,
                                 !.printers = out.printers, !.failing = failing]
    /\ UNCHANGED orderVars
    /\ UNCHANGED <<clockVars, wsVars, adminVars>>

\* ------------------------------------------------------------------------
\* views.py: TableOrderView.post
\* ------------------------------------------------------------------------

RECURSIVE SeqsUpTo(_, _)
SeqsUpTo(S, n) ==
    IF n = 0 THEN {<< >>}
    ELSE SeqsUpTo(S, n - 1) \cup
         {Append(s, x) : s \in {t \in SeqsUpTo(S, n - 1) : Len(t) = n - 1}, x \in S}

\* get_object_or_404(MenuItem, id=..., is_active=True)
MenuItemFound(id) == id \in MenuIds /\ menu[id].is_active

\* MenuVariant.objects.filter(id=...).first()
VariantFirst(id) == IF id \in VariantIds THEN id ELSE Null

\* One pass of the loop body over a line; acc carries the rows written so far
\* inside the transaction, the events already published, and whether
\* get_object_or_404 raised.
QrLine_SkipUnknown(acc, order_id, line) ==
    IF acc.failed THEN acc
    ELSE IF ~MenuItemFound(line.item_id) THEN acc
    ELSE
        LET variant == VariantFirst(line.variant_id)
            qty == line.quantity
            oi == OrderItemSave([order |-> order_id, menu_item |-> line.item_id,
                                 variant |-> variant, quantity |-> qty,
                                 final_price |-> 0])
        IN  IF qty > 0
            THEN [acc EXCEPT
                    !.items = Append(@, oi),
                    !.inventory = deduct_stock(@, line.item_id, qty),
                    !.tickets = Append(@, [order_item |-> Len(acc.items) + 1,
                                           status |-> TicketStatusDefault]),
                    !.sent = @ \o broadcast_kitchen_ticket("create")]
            ELSE acc

QrLine_TicketIfMany(acc, order_id, line) ==
    IF acc.failed THEN acc
    ELSE IF ~MenuItemFound(line.item_id) THEN [acc EXCEPT !.failed = TRUE]
    ELSE
        LET variant == VariantFirst(line.variant_id)
            qty == line.quantity
            oi == OrderItemSave([order |-> order_id, menu_item |-> line.item_id,
                                 variant |-> variant, quantity |-> qty,
                                 final_price |-> 0])
        IN  IF qty > 0
            THEN [acc EXCEPT
                    !.items = Append(@, oi),
                    !.inventory = deduct_stock(@, line.item_id, qty),
                    !.tickets = IF qty > 1
                                THEN Append(@, [order_item |-> Len(acc.items) + 1,
                                                status |-> TicketStatusDefault])
                                ELSE @,
                    !.sent = @ \o broadcast_kitchen_ticket("create")]
            ELSE acc

QrLine(acc, order_id, line) ==
    IF acc.failed THEN acc
    ELSE IF ~MenuItemFound(line.item_id) THEN [acc EXCEPT !.failed = TRUE]
    ELSE
        LET variant == VariantFirst(line.variant_id)
            qty == line.quantity
            oi == OrderItemSave([order |-> order_id, menu_item |-> line.item_id,
                                 variant |-> variant, quantity |-> qty,
                                 final_price |-> 0])
        IN  IF qty > 0
            THEN [acc EXCEPT
                    !.items = Append(@, oi),
                    !.inventory = deduct_stock(@, line.item_id, qty),
                    !.tickets = Append(@, [order_item |-> Len(acc.items) + 1,
                                           status |-> TicketStatusDefault]),
                    !.sent = @ \o broadcast_kitchen_ticket("create")]
            ELSE acc

ReqOf(lines) ==
    [n |-> Len(lines),
     npos |-> Cardinality({k \in 1..Len(lines) : lines[k].quantity > 0}),
     bad |-> \E k \in 1..Len(lines) : ~MenuItemFound(lines[k].item_id)]

RECURSIVE QrLoop(_, _, _, _)
QrLoop(acc, order_id, lines, k) ==
    IF k > Len(lines) THEN acc
    ELSE QrLoop(QrLine(acc, order_id, lines[k]), order_id, lines, k + 1)

TableOrderPost(token, isList, lines) ==
    /\ IF token \notin TableIds
       THEN \* get_object_or_404(Table, access_token=token)
            /\ UNCHANGED orderVars
            /\ sent' = << >>
            /\ last' = Last("qr_order", "http404", Null, Null, ReqOf(lines))
       ELSE IF ~isList
       THEN \* 'Invalid request body'
            /\ UNCHANGED orderVars
            /\ sent' = << >>
            /\ last' = Last("qr_order", "http400", Null, Null, NoLine)
       ELSE
            LET order_id == Len(orders) + 1
                acc0 == [items |-> orderItems, inventory |-> inventory,
                         tickets |-> tickets, failed |-> FALSE,
                         sent |-> NotifyEvents(TRUE, Null, "PLACED")]
                acc == QrLoop(acc0, order_id, lines, 1)
            IN  IF acc.failed
                THEN \* Http404 leaves the atomic block: every row is rolled back
                     /\ UNCHANGED orderVars
                     /\ sent' = acc.sent
                     /\ last' = Last("qr_order", "http404", Null, Null, ReqOf(lines))
                ELSE /\ orders' = Append(orders, [table |-> token, status |-> "IN_PROGRESS",
                                                  tax |-> 0, service_charge |-> 0])
                     /\ orderItems' = acc.items
                     /\ tickets' = acc.tickets
                     /\ inventory' = acc.inventory
                     /\ tables' = [tables EXCEPT ![token].status = TableStatusOccupied]
                     /\ sent' = acc.sent \o NotifyEvents(FALSE, "PLACED", "IN_PROGRESS")
                     /\ last' = Last("qr_order", "success", order_id, Null, ReqOf(lines))
                     /\ UNCHANGED <<menu, variants, payments>>
    /\ UNCHANGED <<clockVars, wsVars, adminVars>>

\* TableOrderView.post for a known table and a list body while the channel
\* layer is not up. Without a layer notify_on_order_update and
\* broadcast_kitchen_ticket return before publishing; when group_send raises,
\* the exception leaves notify_on_order_update during Order.objects.create
\* and the atomic block rolls back.
TableOrderPostLayer(token, lines, layer) ==
    /\ token \in TableIds
    /\ layer \in {"none", "down"}
    /\ LET order_id == Len(orders) + 1
           acc0 == [items |-> orderItems, inventory |-> inventory,
                    tickets |-> tickets, failed |-> FALSE, sent |-> << >>]
           acc == QrLoop(acc0, order_id, lines, 1)
       IN  IF layer = "down"
           THEN /\ UNCHANGED orderVars
                /\ last' = [Last("qr_order", "error500", Null, Null, ReqOf(lines))
                               EXCEPT !.layer = layer]
           ELSE IF acc.failed
           THEN /\ UNCHANGED orderVars
                /\ last' = [Last("qr_order", "http404", Null, Null, ReqOf(lines))
                               EXCEPT !.layer = layer]
           ELSE /\ orders' = Append(orders, [table |-> token, status |-> "IN_PROGRESS",
                                             tax |-> 0, service_charge |-> 0])
                /\ orderItems' = acc.items
                /\ tickets' = acc.tickets
                /\ inventory' = acc.inventory
                /\ tables' = [tables EXCEPT ![token].status = TableStatusOccupied]
                /\ last' = [Last("qr_order", "success", order_id, Null, ReqOf(lines))
                               EXCEPT !.layer = layer]
                /\ UNCHANGED <<menu, variants, payments>>
    /\ sent' = << >>
    /\ UNCHANGED <<clockVars, wsVars, adminVars>>

\* ------------------------------------------------------------------------
\* views.py: UpdateKitchenTicketStatusView.post
\* ------------------------------------------------------------------------

TicketReady(tks, i) ==
    \E k \in 1..Len(tks) : tks[k].order_item = i /\ tks[k].status = TicketStatusReady

\* not order.items.exclude(kitchenticket__status=READY).exists()
TicketsComplete_Any(tks, o) ==
    \E i \in ItemsOf(orderItems, o) : TicketReady(tks, i)

TicketsComplete(tks, o) ==
    \A i \in ItemsOf(orderItems, o) : TicketReady(tks, i)

UpdateKitchenTicketStatusPost(ticket_id, new_status) ==
    /\ IF ticket_id \notin 1..Len(tickets)
       THEN /\ UNCHANGED orderVars
            /\ sent' = << >>
            /\ last' = Last("ticket_update", "http404", Null, ticket_id, NoLine)
       ELSE IF new_status \notin TicketStatuses
       THEN /\ UNCHANGED orderVars
            /\ sent' = << >>
            /\ last' = Last("ticket_update", "http400", Null, ticket_id, NoLine)
       ELSE
            LET tks == [tickets EXCEPT ![ticket_id].status = new_status]
                order == orderItems[tickets[ticket_id].order_item].order
                complete == TicketsComplete(tks, order)
            IN  /\ tickets' = tks
                /\ IF complete
                   THEN /\ orders' = [orders EXCEPT ![order].status = "READY"]
                        /\ sent' = broadcast_kitchen_ticket("update")
                                    \o NotifyEvents(FALSE, orders[order].status, "READY")
                                    \o broadcast_kitchen_ticket("order_complete")
                   ELSE /\ UNCHANGED orders
                        /\ sent' = broadcast_kitchen_ticket("update")
                /\ last' = Last("ticket_update", "success", order, ticket_id, NoLine)
                /\ UNCHANGED <<menu, variants, inventory, tables, orderItems, payments>>
    /\ UNCHANGED <<clockVars, wsVars, adminVars>>

\* ------------------------------------------------------------------------
\* views.py: OrderPaymentView.post
\* ------------------------------------------------------------------------

OrderPaymentPost(order_id) ==
    /\ IF order_id \notin 1..Len(orders)
       THEN /\ UNCHANGED orderVars
            /\ sent' = << >>
            /\ last' = Last("pay", "http404", order_id, Null, NoLine)
       ELSE IF orders[order_id].status = "PAID"
       THEN \* "Order already paid."
            /\ UNCHANGED orderVars
            /\ sent' = << >>
            /\ last' = Last("pay", "noop", order_id, Null, NoLine)
       ELSE
            LET total == calculated_total(order_id)
                previous == orders[order_id].status
            IN  IF total = Null
                THEN \* Payment.amount is NOT NULL: IntegrityError, rolled back
                     /\ UNCHANGED orderVars
                     /\ sent' = << >>
                     /\ last' = Last("pay", "error500", order_id, Null, NoLine)
                ELSE IF NotifyRaises(FALSE, previous, "PAID", orders[order_id].table)
                THEN \* AttributeError in the post_save handler, rolled back
                     /\ UNCHANGED orderVars
                     /\ sent' = NotifyEvents(FALSE, previous, "PAID")
                     /\ last' = Last("pay", "error500", order_id, Null, NoLine)
                ELSE /\ payments' = Append(payments, [order |-> order_id, amount |-> total,
                                                       status |-> "PAID"])
                     /\ orders' = [orders EXCEPT ![order_id].status = "PAID"]
                     /\ sent' = NotifyEvents(FALSE, previous, "PAID")
                     /\ last' = Last("pay", "success", order_id, Null, NoLine)
                     /\ UNCHANGED <<menu, variants, inventory, tables, orderItems, tickets>>
    /\ UNCHANGED <<clockVars, wsVars, adminVars>>

\* ------------------------------------------------------------------------
\* views.py: complete_order
\* ------------------------------------------------------------------------

\* No transaction: order.save() commits the row before the post_save handler
\* runs. The view then calls broadcast_kitchen_ticket(None, action=...,
\* order_id=...), a keyword the function does not take (TypeError), so the
\* response is an error whether or not the handler raised.
CompleteOrder(pk) ==
    /\ IF pk \notin 1..Len(orders)
       THEN /\ UNCHANGED orders
            /\ sent' = << >>
            /\ last' = Last("complete_order", "http404", pk, Null, NoLine)
       ELSE /\ orders' = [orders EXCEPT ![pk].status = "COMPLETED"]
            /\ sent' = NotifyEvents(FALSE, orders[pk].status, "COMPLETED")
            /\ last' = [Last("complete_order", "error500", pk, Null, NoLine)
                           EXCEPT !.status = "COMPLETED"]
    /\ UNCHANGED <<menu, variants, inventory, tables, orderItems, tickets, payments>>
    /\ UNCHANGED <<clockVars, wsVars, adminVars>>

\* ------------------------------------------------------------------------
\* Back-office edits: admin.py inlines and the menu / inventory update views
\* ------------------------------------------------------------------------

\* OrderAdmin change form: the status of a stored order is edited. The admin
\* change view runs in a transaction, so an exception raised by the
\* post_save handler rolls the row back; events published before stay out.
AdminSetOrderStatus(o, status) ==
    /\ o \in 1..Len(orders)
    /\ LET previous == orders[o].status
       IN  /\ sent' = NotifyEvents(FALSE, previous, status)
           /\ IF NotifyRaises(FALSE, previous, status, orders[o].table)
              THEN /\ UNCHANGED orders
                   /\ last' = [Last("order_save", "error500", o, Null, NoLine)
                                  EXCEPT !.status = status]
              ELSE /\ orders' = [orders EXCEPT ![o].status = status]
                   /\ last' = [Last("order_save", "success", o, Null, NoLine)
                                  EXCEPT !.status = status]
    /\ UNCHANGED <<menu, variants, inventory, tables, orderItems, tickets, payments>>
    /\ UNCHANGED <<clockVars, wsVars, adminVars>>

\* OrderAdmin add form: a new order of the restaurant, with or without a
\* table; pre_save runs assign_table_if_missing, post_save the notification.
AdminAddOrder(table) ==
    /\ LET pk == Len(orders) + 1
           assigned == assign_table_if_missing(pk, table, 1)
           order_table == IF assigned # Null THEN assigned ELSE table
       IN  /\ orders' = Append(orders, [table |-> order_table, status |-> "PLACED",
                                        tax |-> 0, service_charge |-> 0])
           /\ tables' = IF assigned # Null
                        THEN [tables EXCEPT ![assigned].status = TableStatusOccupied]
                        ELSE tables
           /\ last' = [Last("order_add", "success", pk, Null, NoLine) EXCEPT !.table = table]
    /\ sent' = NotifyEvents(TRUE, Null, "PLACED")
    /\ UNCHANGED <<menu, variants, inventory, orderItems, tickets, payments>>
    /\ UNCHANGED <<clockVars, wsVars, adminVars>>

\* OrderAdmin change of the status while the channel layer is not up:
\* without a layer notify_on_order_update returns before anything else; when
\* group_send raises, the first publish of a notified transition raises.
AdminSetOrderStatusLayer(o, status, layer) ==
    /\ o \in 1..Len(orders)
    /\ layer \in {"none", "down"}
    /\ IF layer = "down" /\ NotifyEvents(FALSE, orders[o].status, status) # << >>
       THEN /\ UNCHANGED orders
            /\ last' = [Last("order_save", "error500", o, Null, NoLine)
                           EXCEPT !.status = status, !.layer = layer]
       ELSE /\ orders' = [orders EXCEPT ![o].status = status]
            /\ last' = [Last("order_save", "success", o, Null, NoLine)
                           EXCEPT !.status = status, !.layer = layer]
    /\ sent' = << >>
    /\ UNCHANGED <<menu, variants, inventory, tables, orderItems, tickets, payments>>
    /\ UNCHANGED <<clockVars, wsVars, adminVars>>

\* RestaurantAdmin, TableInline: the status of a table is edited
AdminSetTableStatus(t, status) ==
    /\ tables' = [tables EXCEPT ![t].status = status]
    /\ sent' = << >>
    /\ last' = Last("admin_table", "success", Null, Null, NoLine)
    /\ UNCHANGED <<menu, variants, inventory, orders, orderItems, tickets, payments>>
    /\ UNCHANGED <<clockVars, wsVars, adminVars>>

\* OrderAdmin change form: tax and service_charge are edited, the status is
\* not, so notify_on_order_update publishes nothing.
AdminSetOrderCharges(o, tax, service_charge) ==
    /\ o \in 1..Len(orders)
    /\ orders' = [orders EXCEPT ![o].tax = tax, ![o].service_charge = service_charge]
    /\ sent' = NotifyEvents(FALSE, orders[o].status, orders[o].status)
    /\ last' = Last("admin_order", "success", o, Null, NoLine)
    /\ UNCHANGED <<menu, variants, inventory, tables, orderItems, tickets, payments>>
    /\ UNCHANGED <<clockVars, wsVars, adminVars>>

\* OrderAdmin, OrderItemInline: the quantity of a stored OrderItem is edited
\* and the row saved (deduct_stock returns at once: created is False).
AdminSaveOrderItem(i, quantity) ==
    /\ i \in 1..Len(orderItems)
    /\ orderItems' = [orderItems EXCEPT ![i] = OrderItemSave([@ EXCEPT !.quantity = quantity])]
    /\ sent' = << >>
    /\ last' = Last("admin_order_item", "success", orderItems[i].order, Null, NoLine)
    /\ UNCHANGED <<menu, variants, inventory, tables, orders, tickets, payments>>
    /\ UNCHANGED <<clockVars, wsVars, adminVars>>

\* MenuItemUpdateView (fields base_price, is_active)
MenuItemUpdate(m, base_price, is_active) ==
    /\ menu' = [menu EXCEPT ![m].base_price = base_price, ![m].is_active = is_active]
    /\ sent' = << >>
    /\ last' = Last("menu_update", "success", Null, Null, NoLine)
    /\ UNCHANGED <<variants, inventory, tables, orders, orderItems, tickets, payments>>
    /\ UNCHANGED <<clockVars, wsVars, adminVars>>

\* MenuItemAdmin, MenuVariantInline (field price_modifier)
MenuVariantUpdate(v, price_modifier) ==
    /\ variants' = [variants EXCEPT ![v].price_modifier = price_modifier]
    /\ sent' = << >>
    /\ last' = Last("variant_update", "success", Null, Null, NoLine)
    /\ UNCHANGED <<menu, inventory, tables, orders, orderItems, tickets, payments>>
    /\ UNCHANGED <<clockVars, wsVars, adminVars>>

\* ------------------------------------------------------------------------
\* views.py: ClockInOutView.post
\* ------------------------------------------------------------------------

Procs == {1, 2}

Idle == [pc |-> "idle", staff |-> Null, date |-> Null, now |-> Null,
         pk |-> Null, att |-> Null, created |-> FALSE]

\* Attendance.objects.filter(staff=user, date=today)
MatchingRows(att, staff, date) ==
    {k \in 1..Len(att) : att[k].staff = staff /\ att[k].date = date}

\* defaults={'clock_in': now, ...}
NewAttendance(staff, date, t) ==
    [staff |-> staff, date |-> date, clock_in |-> t, clock_out |-> Null]

\* elif attendance.clock_in and not attendance.clock_out
ClockOutDue_Always(att) == att.clock_in # Null

ClockOutDue(att) == att.clock_in # Null /\ att.clock_out = Null

\* The whole handler, run without another request in between.
ClockInOutPost(staff) ==
    LET rows == MatchingRows(attendance, staff, today)
    IN  /\ IF Cardinality(rows) > 1
           THEN \* get() raises MultipleObjectsReturned
                /\ UNCHANGED attendance
                /\ last' = LastClock("error500", staff)
           ELSE IF rows = {}
           THEN /\ attendance' = Append(attendance, NewAttendance(staff, today, now))
                /\ last' = LastClock("clock_in", staff)
           ELSE LET k == CHOOSE k \in rows : TRUE
                IN  IF ClockOutDue(attendance[k])
                    THEN /\ attendance' = [attendance EXCEPT ![k].clock_out = now]
                         /\ last' = LastClock("clock_out", staff)
                    ELSE /\ UNCHANGED attendance
                         /\ last' = LastClock("noop", staff)
        /\ sent' = << >>
        /\ UNCHANGED <<today, now, reqs>>
        /\ UNCHANGED <<orderVars, wsVars, adminVars>>

\* The handler step by step, one request per worker process.
\* user = request.user; today = timezone.now().date(); now = timezone.now()
ClockBegin(p, staff) ==
    /\ reqs[p].pc = "idle"
    /\ reqs' = [reqs EXCEPT ![p] = [Idle EXCEPT !.pc = "get", !.staff = staff,
                                                !.date = today, !.now = now]]
    /\ last' = LastClock("begin", staff)
    /\ sent' = << >>
    /\ UNCHANGED <<attendance, today, now>>
    /\ UNCHANGED <<orderVars, wsVars, adminVars>>

\* get_or_create: the SELECT
ClockGet(p) ==
    /\ reqs[p].pc = "get"
    /\ LET rows == MatchingRows(attendance, reqs[p].staff, reqs[p].date)
       IN  IF Cardinality(rows) > 1
           THEN /\ reqs' = [reqs EXCEPT ![p] = Idle]
                /\ last' = LastClock("error500", reqs[p].staff)
           ELSE IF rows = {}
           THEN /\ reqs' = [reqs EXCEPT ![p].pc = "create"]
                /\ last' = LastClock("get", reqs[p].staff)
           ELSE LET k == CHOOSE k \in rows : TRUE
                IN  /\ reqs' = [reqs EXCEPT ![p].pc = "branch", ![p].pk = k,
                                             ![p].att = attendance[k]]
                    /\ last' = LastClock("get", reqs[p].staff)
    /\ sent' = << >>
    /\ UNCHANGED <<attendance, today, now>>
    /\ UNCHANGED <<orderVars, wsVars, adminVars>>

\* get_or_create: the INSERT; Attendance declares no unique constraint, so
\* it cannot raise IntegrityError.
ClockCreate(p) ==
    /\ reqs[p].pc = "create"
    /\ attendance' = Append(attendance, NewAttendance(reqs[p].staff, reqs[p].date, reqs[p].now))
    /\ reqs' = [reqs EXCEPT ![p].pc = "branch", ![p].pk = Len(attendance) + 1,
                            ![p].att = NewAttendance(reqs[p].staff, reqs[p].date, reqs[p].now),
                            ![p].created = TRUE]
    /\ last' = LastClock("create", reqs[p].staff)
    /\ sent' = << >>
    /\ UNCHANGED <<today, now>>
    /\ UNCHANGED <<orderVars, wsVars, adminVars>>

\* if created / elif ... attendance.save() / else
ClockBranch(p) ==
    /\ reqs[p].pc = "branch"
    /\ IF reqs[p].created
       THEN /\ UNCHANGED attendance
            /\ last' = LastClock("clock_in", reqs[p].staff)
       ELSE IF ClockOutDue(reqs[p].att)
       THEN /\ attendance' = [attendance EXCEPT
                                ![reqs[p].pk] = [reqs[p].att EXCEPT !.clock_out = reqs[p].now]]
            /\ last' = LastClock("clock_out", reqs[p].staff)
       ELSE /\ UNCHANGED attendance
            /\ last' = LastClock("noop", reqs[p].staff)
    /\ reqs' = [reqs EXCEPT ![p] = Idle]
    /\ sent' = << >>
    /\ UNCHANGED <<today, now>>
    /\ UNCHANGED <<orderVars, wsVars, adminVars>>

\* the wall clock moves on within the day
Tick ==
    /\ now < MaxNow
    /\ now' = now + 1
    /\ last' = Last("tick", "success", Null, Null, NoLine)
    /\ sent' = << >>
    /\ UNCHANGED <<attendance, today, reqs>>
    /\ UNCHANGED <<orderVars, wsVars, adminVars>>

\* midnight passes
NextDay ==
    /\ today < MaxDay
    /\ now < MaxNow
    /\ today' = today + 1
    /\ now' = now + 1
    /\ last' = Last("next_day", "success", Null, Null, NoLine)
    /\ sent' = << >>
    /\ UNCHANGED <<attendance, reqs>>
    /\ UNCHANGED <<orderVars, wsVars, adminVars>>

\* ------------------------------------------------------------------------
\* pos_views.py: create_order
\* ------------------------------------------------------------------------

\* the per-table customer display group, f"customer_display_{table_id}", or the fallback group without a table id
CustomerDisplayGroup(table_id) ==
    IF table_id = 1 THEN "customer_display_1"
    ELSE IF table_id = 2 THEN "customer_display_2"
    ELSE "customer_display_all"

\* MenuItem.objects.get(id=itm["id"])
MenuItemGet(id) == id \in MenuIds

\* What `last` keeps of the items of a POS order: their number, the number
\* whose menu item exists, and whether some item names no menu item.
PosReqOf(items) ==
    [n |-> Len(items),
     npos |-> Cardinality({k \in 1..Len(items) : MenuItemGet(items[k].id)}),
     bad |-> \E k \in 1..Len(items) : ~MenuItemGet(items[k].id)]

\* One pass of the loop body: MenuItem.DoesNotExist is caught and the loop
\* continues with the next item.
CreateOrderItem_StopAtUnknown(acc, order_id, itm) ==
    IF acc.failed THEN acc
    ELSE IF ~MenuItemGet(itm.id) THEN [acc EXCEPT !.failed = TRUE]
    ELSE
        LET qty == itm.quantity
            price == menu[itm.id].base_price * qty
            oi == OrderItemSave([order |-> order_id, menu_item |-> itm.id,
                                 variant |-> Null, quantity |-> qty,
                                 final_price |-> price])
        IN  [acc EXCEPT !.items = Append(@, oi),
                        !.inventory = deduct_stock(@, itm.id, qty)]

CreateOrderItem(acc, order_id, itm) ==
    IF acc.failed THEN acc
    ELSE IF ~MenuItemGet(itm.id) THEN acc
    ELSE
        LET qty == itm.quantity
            price == menu[itm.id].base_price * qty
            oi == OrderItemSave([order |-> order_id, menu_item |-> itm.id,
                                 variant |-> Null, quantity |-> qty,
                                 final_price |-> price])
        IN  [acc EXCEPT !.items = Append(@, oi),
                        !.inventory = deduct_stock(@, itm.id, qty)]

RECURSIVE CreateOrderLoop(_, _, _, _)
CreateOrderLoop(acc, order_id, items, k) ==
    IF k > Len(items) THEN acc
    ELSE CreateOrderLoop(CreateOrderItem(acc, order_id, items[k]), order_id, items, k + 1)

\* The payload built after the loop reads table.name and
\* order.orderitem_set; Table has no field `name` and OrderItem.order has
\* related_name='items', so building it raises AttributeError.
CreateOrderPayloadRaises == "name" \notin TableFields

\* The view runs outside any transaction: each row is committed as it is
\* written and stays when a later statement raises.
CreateOrderPost(table_id, items) ==
    /\ IF items = << >>
       THEN \* "No items in order"
            /\ UNCHANGED orderVars
            /\ sent' = << >>
            /\ last' = Last("pos_order", "http400", Null, Null, NoLine)
       ELSE IF table_id \notin TableIds
       THEN \* get_object_or_404(Table, id=table_id)
            /\ UNCHANGED orderVars
            /\ sent' = << >>
            /\ last' = Last("pos_order", "http404", Null, Null, PosReqOf(items))
       ELSE
            LET order_id == Len(orders) + 1
                acc0 == [items |-> orderItems, inventory |-> inventory, failed |-> FALSE]
                acc == CreateOrderLoop(acc0, order_id, items, 1)
            IN  /\ orders' = Append(orders, [table |-> table_id, status |-> "pending",
                                             tax |-> 0, service_charge |-> 0])
                /\ orderItems' = acc.items
                /\ inventory' = acc.inventory
                /\ sent' = NotifyEvents(TRUE, Null, "pending")
                            \o (IF CreateOrderPayloadRaises THEN << >>
                                ELSE << Event("kds_group", "new_order", "new_order"),
                                        Event(CustomerDisplayGroup(table_id), "new_update", "new_order"),
                                        Event("pos_group", "order_status_update", "pending") >>)
                /\ last' = Last("pos_order",
                                IF CreateOrderPayloadRaises THEN "error500" ELSE "success",
                                order_id, Null, PosReqOf(items))
                /\ UNCHANGED <<menu, variants, tables, tickets, payments>>
    /\ UNCHANGED <<clockVars, wsVars, adminVars>>

\* ------------------------------------------------------------------------
\* views.py: POSView.post (direct single-item sale), one request per worker
\* process; the MenuItem row lock is held from select_for_update().get()
\* until the transaction ends.
\* ------------------------------------------------------------------------

\* another transaction holds the row lock of the menu item
RowLocked(p, item_id) ==
    \E q \in Procs \ {p} : reqs[q].pc = "sale_locked" /\ reqs[q].item_id = item_id

\* data = json.loads(...); if not item_id or not payment_method
SaleBegin(p, item_id, qty, payment_method) ==
    /\ reqs[p].pc = "idle"
    /\ IF item_id \in {Null, 0} \/ payment_method = ""
       THEN \* "Missing required fields."
            /\ UNCHANGED reqs
            /\ last' = Last("sale", "rejected", Null, Null, NoLine)
       ELSE /\ reqs' = [reqs EXCEPT ![p] = [pc |-> "sale_get", item_id |-> item_id,
                                             qty |-> qty, quantity |-> Null]]
            /\ last' = Last("sale_begin", "success", Null, Null, NoLine)
    /\ sent' = << >>
    /\ UNCHANGED <<attendance, today, now>>
    /\ UNCHANGED <<orderVars, wsVars, adminVars>>

\* item = MenuItem.objects.select_for_update().get(id=item_id)
SaleLock_NoRowLock(p) ==
    /\ reqs[p].pc = "sale_get"
    /\ IF reqs[p].item_id \notin MenuIds
       THEN \* MenuItem.DoesNotExist: "Item not found."
            /\ reqs' = [reqs EXCEPT ![p] = Idle]
            /\ last' = Last("sale", "rejected", Null, Null, NoLine)
       ELSE /\ reqs' = [reqs EXCEPT ![p].pc = "sale_locked",
                                    ![p].quantity = menu[reqs[p].item_id].quantity]
            /\ last' = Last("sale_lock", "success", Null, Null, NoLine)
    /\ sent' = << >>
    /\ UNCHANGED <<attendance, today, now>>
    /\ UNCHANGED <<orderVars, wsVars, adminVars>>

SaleLock(p) ==
    /\ reqs[p].pc = "sale_get"
    /\ IF reqs[p].item_id \notin MenuIds
       THEN \* MenuItem.DoesNotExist: "Item not found."
            /\ reqs' = [reqs EXCEPT ![p] = Idle]
            /\ last' = Last("sale", "rejected", Null, Null, NoLine)
       ELSE /\ ~RowLocked(p, reqs[p].item_id)
            /\ reqs' = [reqs EXCEPT ![p].pc = "sale_locked",
                                    ![p].quantity = menu[reqs[p].item_id].quantity]
            /\ last' = Last("sale_lock", "success", Null, Null, NoLine)
    /\ sent' = << >>
    /\ UNCHANGED <<attendance, today, now>>
    /\ UNCHANGED <<orderVars, wsVars, adminVars>>

\* the stock test, the writes and the end of the transaction
SaleWrite(p) ==
    /\ reqs[p].pc = "sale_locked"
    /\ LET item_id == reqs[p].item_id
           qty == reqs[p].qty
           order_id == Len(orders) + 1
           oi == OrderItemSave([order |-> order_id, menu_item |-> item_id,
                                variant |-> Null, quantity |-> qty, final_price |-> 0])
       IN  IF reqs[p].quantity < qty
           THEN \* "Not enough stock."
                /\ UNCHANGED orderVars
                /\ sent' = << >>
                /\ last' = Last("sale", "rejected", Null, Null, NoLine)
           ELSE /\ orders' = Append(orders, [table |-> Null, status |-> "PLACED",
                                             tax |-> 0, service_charge |-> 0])
                /\ orderItems' = Append(orderItems, oi)
                /\ inventory' = deduct_stock(inventory, item_id, qty)
                /\ menu' = [menu EXCEPT ![item_id].quantity = reqs[p].quantity - qty]
                /\ tickets' = Append(tickets, [order_item |-> Len(orderItems) + 1,
                                               status |-> TicketStatusDefault])
                /\ sent' = NotifyEvents(TRUE, Null, "PLACED")
                            \o broadcast_kitchen_ticket("create")
                /\ last' = Last("sale", "success", order_id, Len(tickets) + 1, NoLine)
                /\ UNCHANGED <<variants, tables, payments>>
    /\ reqs' = [reqs EXCEPT ![p] = Idle]
    /\ UNCHANGED <<attendance, today, now>>
    /\ UNCHANGED <<wsVars, adminVars>>

\* ------------------------------------------------------------------------
\* views.py: UpdateKitchenTicketStatusView.post, statement by statement
\*
\* Each request runs in its own transaction (@transaction.atomic, no
\* select_for_update). A transaction reads the committed rows and its own
\* writes (READ COMMITTED); an UPDATE holds the row until the transaction
\* ends. tickets and orders are the committed rows; the writes of an open
\* transaction are kept in its request record until TicketCommit.
\* ------------------------------------------------------------------------

\* the transaction of p is open
TicketOpen(p) == reqs[p].pc \in {"tk_save", "tk_check", "tk_commit"}

\* the rows of KitchenTicket as the transaction of p sees them
TicketView(p) ==
    IF reqs[p].wrote THEN [tickets EXCEPT ![reqs[p].ticket_id].status = reqs[p].new_status]
    ELSE tickets

\* another open transaction has updated the ticket row
TicketRowHeld(p, ticket_id) ==
    \E q \in Procs \ {p} : TicketOpen(q) /\ reqs[q].wrote /\ reqs[q].ticket_id = ticket_id

\* another open transaction has updated the order row
OrderRowHeld(p, order) ==
    \E q \in Procs \ {p} : TicketOpen(q) /\ reqs[q].promoted /\ reqs[q].order = order

\* ticket = get_object_or_404(...); the status is a valid choice
TicketBegin(p, ticket_id, new_status) ==
    /\ reqs[p].pc = "idle"
    /\ ticket_id \in 1..Len(tickets)
    /\ new_status \in TicketStatuses
    /\ reqs' = [reqs EXCEPT ![p] =
                   [pc |-> "tk_save", ticket_id |-> ticket_id, new_status |-> new_status,
                    order |-> orderItems[tickets[ticket_id].order_item].order,
                    was |-> tickets[ticket_id].status,
                    wrote |-> FALSE, promoted |-> FALSE, emitted |-> << >>]]
    /\ last' = Last("ticket_begin", "success", Null, ticket_id, NoLine)
    /\ sent' = << >>
    /\ UNCHANGED <<attendance, today, now>>
    /\ UNCHANGED <<orderVars, wsVars, adminVars>>

\* ticket.save(update_fields=['status']); broadcast_kitchen_ticket(ticket, "update")
TicketSave(p) ==
    /\ reqs[p].pc = "tk_save"
    /\ ~TicketRowHeld(p, reqs[p].ticket_id)
    /\ reqs' = [reqs EXCEPT ![p].pc = "tk_check", ![p].wrote = TRUE,
                            ![p].emitted = @ \o broadcast_kitchen_ticket("update")]
    /\ last' = Last("ticket_save", "success", reqs[p].order, reqs[p].ticket_id, NoLine)
    /\ sent' = broadcast_kitchen_ticket("update")
    /\ UNCHANGED <<attendance, today, now>>
    /\ UNCHANGED <<orderVars, wsVars, adminVars>>

\* complete = not order.items.exclude(...).exists(); if complete: order.save,
\* broadcast_kitchen_ticket(ticket, "order_complete")
TicketCheck(p) ==
    /\ reqs[p].pc = "tk_check"
    /\ LET order == reqs[p].order
           complete == TicketsComplete(TicketView(p), order)
           events == NotifyEvents(FALSE, orders[order].status, "READY")
                     \o broadcast_kitchen_ticket("order_complete")
       IN  IF complete
           THEN /\ ~OrderRowHeld(p, order)
                /\ reqs' = [reqs EXCEPT ![p].pc = "tk_commit", ![p].promoted = TRUE,
                                        ![p].emitted = @ \o events]
                /\ sent' = events
           ELSE /\ reqs' = [reqs EXCEPT ![p].pc = "tk_commit"]
                /\ sent' = << >>
    /\ last' = Last("ticket_check", "success", reqs[p].order, reqs[p].ticket_id, NoLine)
    /\ UNCHANGED <<attendance, today, now>>
    /\ UNCHANGED <<orderVars, wsVars, adminVars>>

\* the end of the atomic block and the response; the request record keeps
\* what the request did
TicketCommit(p) ==
    /\ reqs[p].pc = "tk_commit"
    /\ tickets' = TicketView(p)
    /\ orders' = IF reqs[p].promoted
                 THEN [orders EXCEPT ![reqs[p].order].status = "READY"]
                 ELSE orders
    /\ reqs' = [reqs EXCEPT ![p].pc = "tk_done"]
    /\ last' = Last("ticket_update", "success", reqs[p].order, reqs[p].ticket_id, NoLine)
    /\ sent' = << >>
    /\ UNCHANGED <<menu, variants, inventory, tables, orderItems, payments>>
    /\ UNCHANGED <<attendance, today, now>>
    /\ UNCHANGED <<wsVars, adminVars>>

\* ------------------------------------------------------------------------
\* signals.py: deduct_stock, statement by statement, for the OrderItem of a
\* one-line POS order (pos_views.create_order runs outside any transaction,
\* so every statement commits on its own)
\* ------------------------------------------------------------------------

\* Order.objects.create, OrderItem.objects.create, and in the post_save
\* handler the query that loads the recipe rows with their ingredients:
\* old_qty is the quantity each ingredient row held when it was loaded.
StockItemCreate(p, table_id, m, q) ==
    /\ reqs[p].pc = "idle"
    /\ LET order_id == Len(orders) + 1
           oi == OrderItemSave([order |-> order_id, menu_item |-> m, variant |-> Null,
                                quantity |-> q, final_price |-> menu[m].base_price * q])
       IN  /\ orders' = Append(orders, [table |-> table_id, status |-> "pending",
                                        tax |-> 0, service_charge |-> 0])
           /\ orderItems' = Append(orderItems, oi)
           /\ reqs' = [reqs EXCEPT ![p] = [pc |-> "stock_save", menu_item |-> m,
                                           quantity |-> q, old_qty |-> inventory]]
           /\ sent' = NotifyEvents(TRUE, Null, "pending")
           /\ last' = Last("stock_read", "success", order_id, Null, NoLine)
    /\ UNCHANGED <<menu, variants, inventory, tables, tickets, payments>>
    /\ UNCHANGED <<attendance, today, now>>
    /\ UNCHANGED <<wsVars, adminVars>>

\* ingredient.quantity = max(old_qty - total_used, 0);
\* ingredient.save(update_fields=["quantity"]), for each recipe row
StockSave(p) ==
    /\ reqs[p].pc = "stock_save"
    /\ LET m == reqs[p].menu_item
           written == deduct_stock(reqs[p].old_qty, m, reqs[p].quantity)
       IN  inventory' = [i \in Ingredients |->
                            IF RecipeQty(m, i) > 0 THEN written[i] ELSE inventory[i]]
    /\ reqs' = [reqs EXCEPT ![p] = Idle]
    /\ sent' = << >>
    /\ last' = Last("stock_save", "success", Null, Null, NoLine)
    /\ UNCHANGED <<menu, variants, tables, orders, orderItems, tickets, payments>>
    /\ UNCHANGED <<attendance, today, now>>
    /\ UNCHANGED <<wsVars, adminVars>>

\* ------------------------------------------------------------------------
\* consumers.py: display consumers and the channel layer
\* ------------------------------------------------------------------------

\* the group a consumer joins in connect()
GroupOf(kind, table_id) ==
    IF kind = "kds" THEN "kds_group"
    ELSE IF kind = "pos" THEN "pos_group"
    ELSE IF kind = "orders" THEN "orders_group"
    ELSE IF kind = "tickets" THEN "tickets_group"
    ELSE CustomerDisplayGroup(table_id)

\* the message types a consumer class has a handler method for
Handlers(kind) ==
    IF kind = "kds" THEN {"new_order", "order_status_update"}
    ELSE IF kind = "pos" THEN {"order_status_update"}
    ELSE IF kind = "customer" THEN {"new_update", "order_status_update"}
    ELSE IF kind = "orders" THEN {"order_status_update"}
    ELSE IF kind = "tickets" THEN {"ticket_update"}
    ELSE {"chat_message"}

\* group_send: the event reaches the connections that joined the group, and
\* a connection hands it to the handler named by the event type.
Receives(c, ev) == c.open /\ c.group = ev.group /\ ev.type \in Handlers(c.kind)

\* KitchenDisplayConsumer / POSConsumer / CustomerDisplayConsumer /
\* OrderConsumer / TicketConsumer .connect
DisplayConnect(kind, table_id) ==
    /\ connections' = Append(connections,
                             [kind |-> kind, group |-> GroupOf(kind, table_id),
                              table |-> table_id, user |-> Null, open |-> TRUE,
                              disconnected |-> FALSE, inbox |-> << >>])
    /\ sent' = << >>
    /\ last' = Last("ws_connect", "success", Null, Null, NoLine)
    /\ UNCHANGED chatMessages
    /\ UNCHANGED <<orderVars, clockVars, adminVars>>

\* ------------------------------------------------------------------------
\* consumers.py: ChatConsumer
\*
\* consumers.py names database_sync_to_async, ChatMessage and now without
\* importing them (its imports are json, logging and AsyncWebsocketConsumer).
\* The consumers are modelled with those names bound to
\* channels.db.database_sync_to_async, core.models.ChatMessage and
\* django.utils.timezone.now, which is what the method bodies are written
\* against; as shipped, the class body of ChatConsumer raises NameError when
\* the module is imported, so no consumer of this file can be routed to.
\* ------------------------------------------------------------------------

\* The users a chat connection can carry in scope["user"]. role is
\* CustomUser.role; profile is the role of user.profile, "none" when the
\* user object has no `profile` attribute (core.models defines none).
UserIds == 0..5

ChatUser(id) ==
    IF id = 0 THEN [username |-> "anonymous", is_anonymous |-> TRUE, role |-> "", profile |-> "none"]
    ELSE IF id = 1 THEN [username |-> "u1", is_anonymous |-> FALSE, role |-> "STAFF", profile |-> "none"]
    ELSE IF id = 2 THEN [username |-> "u2", is_anonymous |-> FALSE, role |-> "MANAGER", profile |-> "none"]
    ELSE IF id = 3 THEN [username |-> "u3", is_anonymous |-> FALSE, role |-> "STAFF", profile |-> "Manager"]
    ELSE IF id = 4 THEN [username |-> "u4", is_anonymous |-> FALSE, role |-> "STAFF", profile |-> "staff"]
    ELSE [username |-> "u5", is_anonymous |-> FALSE, role |-> "CUSTOMER", profile |-> "customer"]

\* str.lower() on the role names in use
Lower(r) ==
    IF r = "STAFF" THEN "staff"
    ELSE IF r \in {"MANAGER", "Manager"} THEN "manager"
    ELSE IF r = "CUSTOMER" THEN "customer"
    ELSE r

ChatRoles == {"staff", "manager", "chef", "supervisor"}

\* ChatConsumer._is_authorized
_is_authorized(user) ==
    IF user.is_anonymous THEN FALSE
    ELSE LET role == IF user.profile = "none" THEN "" ELSE Lower(user.profile)
         IN  role \in ChatRoles

\* a frame sent to a client
Frame(type, sender, message, messages) ==
    [type |-> type, sender |-> sender, message |-> message, messages |-> messages]

\* _get_recent_messages(limit=50)
HistoryLimit == 50

\* reversed(list(...))
Reversed(s) == [k \in 1..Len(s) |-> s[Len(s) + 1 - k]]

\* the index of a row of s with the largest timestamp
Latest(s) ==
    CHOOSE k \in 1..Len(s) : \A j \in 1..Len(s) : s[j].timestamp <= s[k].timestamp

Without(s, k) == SubSeq(s, 1, k - 1) \o SubSeq(s, k + 1, Len(s))

\* ChatMessage.objects.order_by("-timestamp")[:limit]
RECURSIVE NewestFirst(_, _)
NewestFirst(rows, limit) ==
    IF rows = << >> \/ limit = 0 THEN << >>
    ELSE << rows[Latest(rows)] >> \o NewestFirst(Without(rows, Latest(rows)), limit - 1)

\* the dict built for one row
SerializeMessage(m) ==
    [sender |-> ChatUser(m.sender).username, message |-> m.content,
     timestamp |-> m.timestamp]

\* the variant that slices the chronological list instead of the newest-first one
RecentMessages_SliceOldest(rows) ==
    LET all == Reversed(NewestFirst(rows, Len(rows)))
        qs == SubSeq(all, 1, IF Len(all) < HistoryLimit THEN Len(all) ELSE HistoryLimit)
    IN  [k \in 1..Len(qs) |-> SerializeMessage(qs[k])]

RecentMessages(rows) ==
    LET qs == Reversed(NewestFirst(rows, HistoryLimit))
    IN  [k \in 1..Len(qs) |-> SerializeMessage(qs[k])]

\* channel_layer.group_send(group, {"type": "chat_message", ...}) followed by
\* chat_message on every connection of the group
DeliverChat(conns, group, frame) ==
    [i \in 1..Len(conns) |->
        IF Receives(conns[i], Event(group, "chat_message", "chat"))
        THEN [conns[i] EXCEPT !.inbox = Append(@, frame)]
        ELSE conns[i]]

\* ChatConsumer.connect
ChatConnect(user_id) ==
    /\ LET user == ChatUser(user_id)
           channel == Len(connections) + 1
           closed == [kind |-> "chat", group |-> "", table |-> Null, user |-> user_id,
                      open |-> FALSE, disconnected |-> FALSE, inbox |-> << >>]
           joined == [closed EXCEPT
                        !.group = "staff_chat", !.open = TRUE,
                        !.inbox = << Frame("history", "", << >>,
                                           RecentMessages(chatMessages)) >>]
       IN  IF ~_is_authorized(user)
           THEN \* close(code=4001)
                /\ connections' = Append(connections, closed)
                /\ sent' = << >>
                /\ last' = [Last("chat_connect", "closed", Null, Null, NoLine)
                               EXCEPT !.staff = user_id]
           ELSE /\ connections' = DeliverChat(Append(connections, joined), "staff_chat",
                                              Frame("chat", "System", <<"j">>, << >>))
                /\ sent' = << Event("staff_chat", "chat_message", "joined") >>
                /\ last' = [Last("chat_connect", "success", Null, Null, NoLine)
                               EXCEPT !.staff = user_id]
    /\ UNCHANGED chatMessages
    /\ UNCHANGED <<orderVars, clockVars, adminVars>>

\* what websocket_disconnect leaves of a connection: the socket is gone, and
\* group_discard (when it ran) removed the channel from its group
Gone(c, discarded) ==
    [c EXCEPT !.open = FALSE, !.disconnected = TRUE,
              !.group = IF discarded THEN "" ELSE @]

\* KitchenDisplayConsumer / POSConsumer / CustomerDisplayConsumer /
\* OrderConsumer / TicketConsumer .disconnect
DisplayDisconnect(channel) ==
    /\ channel \in 1..Len(connections)
    /\ connections[channel].kind # "chat"
    /\ ~connections[channel].disconnected
    /\ connections' = [connections EXCEPT ![channel] = Gone(@, TRUE)]
    /\ sent' = << >>
    /\ last' = [Last("ws_disconnect", "success", Null, Null, NoLine)
                   EXCEPT !.channel = channel]
    /\ UNCHANGED chatMessages
    /\ UNCHANGED <<orderVars, clockVars, adminVars>>

\* ChatConsumer.disconnect. self.group_name exists only when connect()
\* admitted the user; _broadcast_system_message reads it.
ChatDisconnect(channel) ==
    /\ channel \in 1..Len(connections)
    /\ connections[channel].kind = "chat"
    /\ ~connections[channel].disconnected
    /\ LET c == connections[channel]
           user == ChatUser(c.user)
           has_group_name == c.group # ""
           left == [connections EXCEPT ![channel] = Gone(@, has_group_name)]
           lastOf(result) == [Last("ws_disconnect", result, Null, Null, NoLine)
                                EXCEPT !.staff = c.user, !.channel = channel]
       IN  IF user.is_anonymous
           THEN /\ connections' = left
                /\ sent' = << >>
                /\ last' = lastOf("success")
           ELSE IF ~has_group_name
           THEN \* AttributeError: no attribute 'group_name'
                /\ connections' = left
                /\ sent' = << >>
                /\ last' = lastOf("raised")
           ELSE /\ connections' = DeliverChat(left, "staff_chat",
                                              Frame("chat", "System", <<"l">>, << >>))
                /\ sent' = << Event("staff_chat", "chat_message", "left") >>
                /\ last' = lastOf("success")
    /\ UNCHANGED chatMessages
    /\ UNCHANGED <<orderVars, clockVars, adminVars>>

\* str.strip() on a sequence of characters
RECURSIVE StripLeft(_)
StripLeft(t) == IF t # << >> /\ Head(t) = " " THEN StripLeft(Tail(t)) ELSE t

RECURSIVE StripRight(_)
StripRight(t) ==
    IF t # << >> /\ t[Len(t)] = " " THEN StripRight(SubSeq(t, 1, Len(t) - 1)) ELSE t

Strip_Identity(t) == t

Strip(t) == StripRight(StripLeft(t))

\* data = json.loads(text_data); message = (data.get("message") or "").strip()
\* "raises" when json.loads, data.get or .strip raises; a number stands for
\* a non-zero number (the only other falsy values are covered by "null").
ParseMessage(payload) ==
    IF payload.json # "object" THEN [raises |-> TRUE, message |-> << >>]
    ELSE IF payload.has \in {"absent", "null"} THEN [raises |-> FALSE, message |-> << >>]
    ELSE IF payload.has = "number" THEN [raises |-> TRUE, message |-> << >>]
    ELSE [raises |-> FALSE, message |-> Strip(payload.text)]

\* ChatConsumer.receive on the accepted connection `channel`. The timestamp
\* of the new row (auto_now_add) is kept as the rank of its creation instant:
\* each message is saved by its own INSERT and no two rows share an instant.
ChatReceive(channel, payload) ==
    /\ channel \in 1..Len(connections)
    /\ connections[channel].kind = "chat"
    /\ connections[channel].open
    /\ LET user_id == connections[channel].user
           user == ChatUser(user_id)
           parsed == ParseMessage(payload)
           lastOf(result) == [Last("chat_receive", result, Null, Null, NoLine)
                                EXCEPT !.staff = user_id, !.channel = channel,
                                       !.payload = payload]
       IN  IF parsed.raises
           THEN \* {"error": "Invalid JSON payload"}
                /\ connections' = [connections EXCEPT ![channel].inbox =
                        Append(@, Frame("error", "", <<"i">>, << >>))]
                /\ UNCHANGED chatMessages
                /\ sent' = << >>
                /\ last' = lastOf("error")
           ELSE IF parsed.message = << >>
           THEN \* {"error": "Message text required"}
                /\ connections' = [connections EXCEPT ![channel].inbox =
                        Append(@, Frame("error", "", <<"r">>, << >>))]
                /\ UNCHANGED chatMessages
                /\ sent' = << >>
                /\ last' = lastOf("error")
           ELSE \* _save_message, then group_send
                /\ chatMessages' = Append(chatMessages,
                        [sender |-> user_id, content |-> parsed.message,
                         timestamp |-> Len(chatMessages) + 1])
                /\ connections' = DeliverChat(connections, connections[channel].group,
                        Frame("chat", user.username, parsed.message, << >>))
                /\ sent' = << Event(connections[channel].group, "chat_message", "chat") >>
                /\ last' = lastOf("success")
    /\ UNCHANGED <<orderVars, clockVars, adminVars>>

\* ------------------------------------------------------------------------
\* models.py: Customer.add_points
\* ------------------------------------------------------------------------

\* Amounts are Decimals with two places, kept in hundredths of a currency
\* unit. amount // Decimal('10') on a non-negative Decimal is the integer
\* quotient by ten units.
PointsFor(amount) == amount \div (10 * 100)

\* the variant that derives the points from the new total
PointsAfter_FromTotal(c, amount) == PointsFor(customers[c].total_spent + amount)

PointsAfter(c, amount) == customers[c].loyalty_points + PointsFor(amount)

\* Customer.add_points: both fields are written by one UPDATE
add_points(c, amount) ==
    /\ customers' = [customers EXCEPT
                        ![c].loyalty_points = PointsAfter(c, amount),
                        ![c].total_spent = @ + amount]
    /\ last' = [Last("add_points", "success", Null, Null, NoLine)
                   EXCEPT !.customer = c, !.amount = amount]
    /\ sent' = << >>
    /\ UNCHANGED auditLog
    /\ UNCHANGED <<orderVars, clockVars, wsVars>>

\* ------------------------------------------------------------------------
\* admin.py: role gating and restaurant scoping
\* ------------------------------------------------------------------------

\* CustomUser.Roles
Roles == {"SUPER_ADMIN", "MANAGER", "SERVER", "COOK", "CASHIER", "CUSTOMER", "STAFF"}

Companies == {1, 2}
Restaurants == {1, 2, 3}

\* Restaurant.company
RestaurantCompany(r) == IF r = 3 THEN 2 ELSE 1

\* the admin classes deriving from RestaurantScopedAdmin
ScopedPanels == {"InventoryItem", "MenuItem", "Order", "Payment",
                 "AnalyticsSnapshot", "APIToken"}

\* the models of those panels that have a `restaurant` field
HasRestaurantField(panel) == panel # "Payment"

\* the rows of a panel: one per restaurant, named by its restaurant
PanelRows(panel) == Restaurants

\* CustomUser.save: is_staff is derived from the role unless the user is a
\* superuser (createsuperuser sets is_staff)
is_staff(u) ==
    IF u.is_superuser THEN TRUE ELSE u.role \in {"MANAGER", "CASHIER", "SUPER_ADMIN"}

\* AdminSite.has_permission, checked by admin_view before every admin view
AdminSiteHasPermission(u) == u.authenticated /\ is_staff(u)

\* The permission methods answer "granted", "denied" or "raises" (the
\* AnonymousUser has no `role`).
RoleIn(u, roles) ==
    IF u.is_superuser THEN "granted"
    ELSE IF ~u.authenticated THEN "raises"
    ELSE IF u.role \in roles THEN "granted" ELSE "denied"

\* RoleRestrictedAdmin.has_module_permission
has_module_permission(u) ==
    IF ~u.authenticated THEN "denied" ELSE RoleIn(u, {"SUPER_ADMIN", "MANAGER"})

\* RoleRestrictedAdmin.has_view_permission
has_view_permission(u) ==
    IF ~u.authenticated THEN "denied"
    ELSE RoleIn(u, {"SUPER_ADMIN", "MANAGER", "SERVER", "CASHIER", "COOK"})

\* RoleRestrictedAdmin.has_add_permission
has_add_permission(u) == RoleIn(u, {"SUPER_ADMIN", "MANAGER"})

\* the variant that lets the view roles change rows
has_change_permission_ViewRoles(u) ==
    RoleIn(u, {"SUPER_ADMIN", "MANAGER", "SERVER", "CASHIER", "COOK"})

\* RoleRestrictedAdmin.has_change_permission
has_change_permission(u) == RoleIn(u, {"SUPER_ADMIN", "MANAGER"})

\* RoleRestrictedAdmin.has_delete_permission
has_delete_permission(u) == RoleIn(u, {"SUPER_ADMIN", "MANAGER"})

AdminPerms == {"view", "add", "change", "delete"}

HasPermission(u, perm) ==
    IF perm = "view" THEN has_view_permission(u)
    ELSE IF perm = "add" THEN has_add_permission(u)
    ELSE IF perm = "change" THEN has_change_permission(u)
    ELSE has_delete_permission(u)

\* hasattr(u, "restaurant"): CustomUser defines `company` and no `restaurant`
UserHasRestaurantAttr == FALSE

\* RestaurantScopedAdmin.get_queryset: the rows listed, or "raises" when the
\* filter names a field the model does not have (FieldError)
get_queryset(u, panel) ==
    LET qs == PanelRows(panel)
    IN  IF u.is_superuser \/ u.role = "SUPER_ADMIN"
        THEN [raises |-> FALSE, rows |-> qs]
        ELSE IF UserHasRestaurantAttr /\ u.restaurant # Null
        THEN IF HasRestaurantField(panel)
             THEN [raises |-> FALSE, rows |-> {r \in qs : r = u.restaurant}]
             ELSE [raises |-> TRUE, rows |-> {}]
        ELSE IF u.company # Null
        THEN IF HasRestaurantField(panel)
             THEN [raises |-> FALSE,
                   rows |-> {r \in qs : RestaurantCompany(r) = u.company}]
             ELSE [raises |-> TRUE, rows |-> {}]
        ELSE [raises |-> FALSE, rows |-> {}]

\* One request to a view of a restaurant-scoped panel: the changelist
\* ("view"), add_view, change_view or delete_view. admin_view sends a user
\* the site refuses to the login page; the view raises PermissionDenied when
\* the permission method denies.
AdminRequest(u, panel, perm) ==
    /\ LET permission == HasPermission(u, perm)
           listed == get_queryset(u, panel)
           lastOf(result, rows) ==
               [Last("admin_request", result, Null, Null, NoLine)
                   EXCEPT !.user = u, !.panel = panel, !.perm = perm,
                          !.permission = permission, !.rows = rows]
       IN  last' = IF ~AdminSiteHasPermission(u) THEN lastOf("login", {})
                   ELSE IF permission = "raises" THEN lastOf("error500", {})
                   ELSE IF permission = "denied" THEN lastOf("http403", {})
                   ELSE IF listed.raises THEN lastOf("error500", {})
                   ELSE lastOf("success", IF perm = "add" THEN {} ELSE listed.rows)
    /\ sent' = << >>
    /\ UNCHANGED <<orderVars, clockVars, wsVars, adminVars>>

\* request.user.has_perm: an active superuser holds every permission
has_perm(u, perm) == u.is_superuser \/ perm \in u.perms

\* the variant that writes the audit line before checking the caller
ExportAudit_BeforeCheck(u, queryset) ==
    Append(auditLog, [user |-> u.username, count |-> Cardinality(queryset)])

\* the audit line of ChatMessageAdmin.export_selected_to_csv
ExportAudit(u, queryset) ==
    IF ~u.is_superuser /\ ~has_perm(u, "core.view_chatmessage")
    THEN auditLog
    ELSE Append(auditLog, [user |-> u.username, count |-> Cardinality(queryset)])

\* ChatMessageAdmin.export_selected_to_csv on the selected rows (the admin
\* runs an action only on a non-empty selection). "refused": the error
\* message is shown and None is returned, so no file; "success": the
\* response is the CSV holding one line per selected row.
ExportSelectedToCsv(u, queryset) ==
    /\ queryset # {}
    /\ queryset \subseteq 1..Len(chatMessages)
    /\ LET lastOf(result, rows) ==
               [Last("chat_export", result, Null, Null, NoLine)
                   EXCEPT !.user = u, !.rows = rows]
       IN  last' = IF ~u.is_superuser /\ ~has_perm(u, "core.view_chatmessage")
                   THEN lastOf("refused", {})
                   ELSE lastOf("success", queryset)
    /\ auditLog' = ExportAudit(u, queryset)
    /\ sent' = << >>
    /\ UNCHANGED customers
    /\ UNCHANGED <<orderVars, clockVars, wsVars>>

\* ------------------------------------------------------------------------
\* Initial state and specifications
\* ------------------------------------------------------------------------

Init ==
    /\ menu = [m \in MenuIds |-> [base_price |-> IF m = 1 THEN 3 ELSE 0, is_active |-> TRUE,
                               quantity |-> MenuStock]]
    /\ variants = [v \in VariantIds |-> [price_modifier |-> 2]]
    /\ inventory = [i \in Ingredients |-> InitStock(i)]
    /\ tables = [t \in TableIds |-> [status |-> "available"]]
    /\ orders = << >>
    /\ orderItems = << >>
    /\ tickets = << >>
    /\ payments = << >>
    /\ attendance = << >>
    /\ today = 1
    /\ now = 1
    /\ reqs = [p \in Procs |-> Idle]
    /\ connections = << >>
    /\ chatMessages = << >>
    /\ auditLog = << >>
    /\ customers = [c \in CustomerIds |-> [loyalty_points |-> 0, total_spent |-> 0]]
    /\ sent = << >>
    /\ last = Last("init", "success", Null, Null, NoLine)

\* QR ordering: every line shape
QrLines == [item_id : MenuIds \cup {BadMenuId}, variant_id : VariantIds \cup {Null},
            quantity : 0..MaxQty]

PlaceQr ==
    /\ Len(orders) < MaxOrders
    /\ \E lines \in SeqsUpTo(QrLines, MaxLines) : TableOrderPost(1, TRUE, lines)

\* an unknown table token, or a body that is not a list
PlaceQrRejected ==
    /\ Len(orders) < MaxOrders
    /\ \/ \E lines \in SeqsUpTo(QrLines, 1) : TableOrderPost(BadTableToken, TRUE, lines)
       \/ TableOrderPost(1, FALSE, << >>)

Next ==
    \/ PlaceQr
    \/ PlaceQrRejected

Spec == Init /\ [][Next]_vars

\* Kitchen display: orders of one-serving lines, then ticket status updates
KdsLines == [item_id : {2}, variant_id : {Null}, quantity : {1}]

PlaceKds ==
    /\ Len(orders) < MaxKdsOrders
    /\ \E lines \in SeqsUpTo(KdsLines, MaxLines) \ {<< >>} : TableOrderPost(1, TRUE, lines)

UpdateTicket ==
    \E ticket_id \in 1..(Len(tickets) + 1), new_status \in TicketStatuses \cup {"BOGUS"} :
        UpdateKitchenTicketStatusPost(ticket_id, new_status)

NextKds ==
    \/ PlaceKds
    \/ UpdateTicket

SpecKds == Init /\ [][NextKds]_vars

\* Payment capture: orders with and without variants, charges edited in the
\* back office, tables released in the back office
PayLines == [item_id : {1}, variant_id : VariantIds \cup {Null}, quantity : 1..MaxQty]

PlacePay ==
    /\ Len(orders) < MaxPayOrders
    /\ \E lines \in SeqsUpTo(PayLines, MaxLines) : TableOrderPost(1, TRUE, lines)

Pay == \E order_id \in 1..(Len(orders) + 1) : OrderPaymentPost(order_id)

SetTableStatus == \E status \in {"available", "pending"} : AdminSetTableStatus(1, status)

SetCharges ==
    \E o \in 1..Len(orders), tax \in ChargeVals, service_charge \in ChargeVals :
        AdminSetOrderCharges(o, tax, service_charge)

NextPay ==
    \/ PlacePay
    \/ Pay
    \/ SetTableStatus
    \/ SetCharges

SpecPay == Init /\ [][NextPay]_vars

\* Pricing: prices edited and stored order items saved again
PriceLines == [item_id : MenuIds, variant_id : VariantIds \cup {Null}, quantity : {1}]

PlacePriced ==
    /\ Len(orders) < MaxPriceOrders
    /\ \E lines \in SeqsUpTo(PriceLines, 1) : TableOrderPost(1, TRUE, lines)

ChangeMenuPrice ==
    \E m \in MenuIds, base_price \in PriceVals, is_active \in BOOLEAN :
        MenuItemUpdate(m, base_price, is_active)

ChangeVariantPrice ==
    \E v \in VariantIds, price_modifier \in PriceVals : MenuVariantUpdate(v, price_modifier)

ResaveOrderItem ==
    \E i \in 1..Len(orderItems), quantity \in 1..MaxQty : AdminSaveOrderItem(i, quantity)

NextPrice ==
    \/ PlacePriced
    \/ ChangeMenuPrice
    \/ ChangeVariantPrice
    \/ ResaveOrderItem

SpecPrice == Init /\ [][NextPrice]_vars

\* Attendance, one request at a time
ClockInOut == \E staff \in StaffIds : ClockInOutPost(staff)

NextClockSeq ==
    \/ ClockInOut
    \/ Tick
    \/ NextDay

SpecClockSeq == Init /\ [][NextClockSeq]_vars

\* Attendance, requests of two worker processes interleaved
NextClock ==
    \/ \E p \in Procs, staff \in StaffIds : ClockBegin(p, staff)
    \/ \E p \in Procs : ClockGet(p)
    \/ \E p \in Procs : ClockCreate(p)
    \/ \E p \in Procs : ClockBranch(p)
    \/ NextDay

SpecClock == Init /\ [][NextClock]_vars

\* ------------------------------------------------------------------------
\* Properties
\* ------------------------------------------------------------------------

QrSucceeded == last.op = "qr_order" /\ last.result = "success"

NewItems == {i \in 1..Len(orderItems') : i > Len(orderItems)}

C2_QrOrderAtomicFailure ==
    [][ (last'.op = "qr_order" /\ last'.req.bad) =>
          /\ last'.result = "http404"
          /\ orders' = orders
          /\ orderItems' = orderItems
          /\ tickets' = tickets
          /\ payments' = payments
          /\ inventory' = inventory
          /\ tables' = tables ]_vars

\* the failing line comes after a line that was already processed, and an
\* earlier order exists
C2_Witness ==
    /\ last.op = "qr_order" /\ last.result = "http404"
    /\ last.req.bad /\ last.req.n = 2 /\ last.req.npos = 2
    /\ Len(sent) > 3
    /\ Len(orders) = 1

Used(i) ==
    LET RECURSIVE Sum(_)
        Sum(k) == IF k <= Len(orderItems) THEN 0
                  ELSE Sum(k - 1) + RecipeQty(orderItems'[k].menu_item, i) * orderItems'[k].quantity
    IN  Sum(Len(orderItems'))

\* C6: the OrderItems created by a request lower each ingredient of their
\* recipes by quantity_used x quantity, floored at zero, and no inventory
\* quantity is ever negative.
C6_StockDeductionClamped ==
    [][ /\ \A i \in Ingredients : inventory'[i] >= 0
        /\ QrSucceeded' =>
              \A i \in Ingredients :
                 inventory'[i] = IF inventory[i] >= Used(i) THEN inventory[i] - Used(i) ELSE 0
      ]_vars

RECURSIVE Demand(_, _)
Demand(i, k) ==
    IF k = 0 THEN 0
    ELSE Demand(i, k - 1) + RecipeQty(orderItems[k].menu_item, i) * orderItems[k].quantity

\* more was ordered than was in stock, and an exact deduction happened too
C6_Witness ==
    /\ QrSucceeded
    /\ Demand(1, Len(orderItems)) > InitStock(1) /\ inventory[1] = 0
    /\ Demand(2, Len(orderItems)) = 1 /\ inventory[2] = 0

CountEvents(evs, type, event) ==
    Cardinality({k \in 1..Len(evs) : evs[k].type = type /\ evs[k].event = event})

TicketsOfOrder(o) ==
    {k \in 1..Len(tickets) : orderItems[tickets[k].order_item].order = o}

C4_PaymentCapturedOnce ==
    [][ (last'.op = "pay" /\ last'.order \in 1..Len(orders)) =>
          LET o == last'.order
          IN  IF orders[o].status # "PAID"
              THEN /\ Len(payments') = Len(payments) + 1
                   /\ payments'[Len(payments')].order = o
                   /\ payments'[Len(payments')].status = "PAID"
                   /\ orders'[o].status = "PAID"
              ELSE /\ payments' = payments
                   /\ orders' = orders ]_vars

\* C5: the amount of the Payment recorded by payment capture is the order's
\* total price: the stored final prices of its items plus tax and service
\* charge.
C5_PaymentAmountIsTotalPrice ==
    [][ (last'.op = "pay" /\ last'.result = "success") =>
          payments'[Len(payments')].amount = total_price(last'.order) ]_vars

RECURSIVE SumFinalOver(_)
SumFinalOver(S) ==
    IF S = {} THEN 0
    ELSE LET i == CHOOSE i \in S : TRUE
         IN  orderItems[i].final_price + SumFinalOver(S \ {i})

\* C7: the total price of every order is the sum of the stored final prices
\* of its items plus its tax plus its service charge.
C7_TotalPriceIsSumOfFinalPrices ==
    \A o \in 1..Len(orders) :
        total_price(o) = SumFinalOver(ItemsOf(orderItems, o))
                         + orders[o].tax + orders[o].service_charge

\* an order of two items with different final prices, taxed and charged
C7_Witness ==
    \E o \in 1..Len(orders) :
        /\ \E i, j \in ItemsOf(orderItems, o) :
              orderItems[i].final_price # orderItems[j].final_price
        /\ orders[o].tax > 0 /\ orders[o].service_charge > 0
        /\ total_price(o) > 2

\* C8: the stored final price of an OrderItem is (variant price modifier if
\* it has a variant, else menu base price) x quantity when the item is
\* created, and no later step changes it.
C8_FinalPriceFrozen ==
    [][ /\ \A i \in NewItems :
              orderItems'[i].final_price =
                 (IF orderItems'[i].variant # Null
                  THEN variants[orderItems'[i].variant].price_modifier
                  ELSE menu[orderItems'[i].menu_item].base_price) * orderItems'[i].quantity
        /\ \A i \in 1..Len(orderItems) :
              orderItems'[i].final_price = orderItems[i].final_price ]_vars

PosItems == [id : MenuIds \cup {BadMenuId}, quantity : 0..MaxQty]

PlacePos ==
    /\ Len(orders) < MaxPosOrders
    /\ \E items \in SeqsUpTo(PosItems, MaxLines) : CreateOrderPost(1, items)

PlacePosRejected ==
    /\ Len(orders) < MaxPosOrders
    /\ \E items \in SeqsUpTo(PosItems, 1) : CreateOrderPost(BadTableToken, items)

NextPos ==
    \/ PlacePos
    \/ PlacePosRejected

SpecPos == Init /\ [][NextPos]_vars

\* C11: in POS order creation an item whose menu item id does not exist is
\* skipped: the Order is created and gets exactly one OrderItem for each
\* item whose menu item exists, in request order, and none for the unknown.
C11_PosOrderSkipsUnknownItems ==
    [][(last'.op = "pos_order" /\ last'.order # Null) =>
        /\ Len(orders') = Len(orders) + 1
        /\ last'.order = Len(orders')
        /\ Len(orderItems') = Len(orderItems) + last'.req.npos
        /\ \A i \in (Len(orderItems) + 1)..Len(orderItems') :
              /\ orderItems'[i].order = last'.order
              /\ MenuItemGet(orderItems'[i].menu_item)
        /\ \A i \in 1..Len(orderItems) : orderItems'[i] = orderItems[i]]_vars

\* an order was created from a list holding an unknown item before a known one
C11_Witness ==
    /\ last.op = "pos_order"
    /\ last.order # Null
    /\ last.req.bad
    /\ last.req.npos >= 1
    /\ last.req.n = 2
    /\ Len(orderItems) >= 1
    /\ orderItems[Len(orderItems)].order = last.order

\* ------------------------------------------------------------------------
\* Direct sales (POSView.post), concurrent requests
\* ------------------------------------------------------------------------

SaleStart ==
    /\ Len(orders) < MaxSaleOrders
    /\ \E p \in Procs, item_id \in MenuIds \cup {BadMenuId, Null}, qty \in 0..MaxQty,
          payment_method \in {"cash", ""} :
            SaleBegin(p, item_id, qty, payment_method)

SaleGet == \E p \in Procs : SaleLock(p)

SaleFinish == \E p \in Procs : SaleWrite(p)

NextSale ==
    \/ SaleStart
    \/ SaleGet
    \/ SaleFinish

SpecSale == Init /\ [][NextSale]_vars

\* quantities of the OrderItems of menu item m (the accepted sales)
RECURSIVE SoldUpTo(_, _)
SoldUpTo(m, n) ==
    IF n = 0 THEN 0
    ELSE SoldUpTo(m, n - 1)
         + (IF orderItems[n].menu_item = m THEN orderItems[n].quantity ELSE 0)

ConnectDisplay ==
    /\ Len(connections) < MaxConns
    /\ \/ \E kind \in {"kds", "pos"} : DisplayConnect(kind, Null)
       \/ \E table_id \in TableIds \cup {Null} : DisplayConnect("customer", table_id)

NextDisplay ==
    \/ ConnectDisplay
    \/ PlaceKds

SpecDisplay == Init /\ [][NextDisplay]_vars

\* C13: when a new Order is created, an event published by the order signal
\* handler reaches every connected kitchen display, every connected POS
\* terminal and the customer displays of the order's table.
C13_CreatedEventReachesDisplays ==
    [][(last'.op = "qr_order" /\ last'.result = "success") =>
        \A i \in 1..Len(connections') :
            LET c == connections'[i]
            IN  (c.kind \in {"kds", "pos"}
                 \/ (c.kind = "customer" /\ c.table = orders'[last'.order].table))
                => \E k \in 1..Len(sent') : Receives(c, sent'[k])]_vars

\* ------------------------------------------------------------------------
\* Saves of stored orders
\* ------------------------------------------------------------------------

SetOrderStatus ==
    \E o \in 1..Len(orders), status \in OrderStatuses : AdminSetOrderStatus(o, status)

Complete == \E pk \in 1..(Len(orders) + 1) : CompleteOrder(pk)

NextOrderSave ==
    \/ PlaceKds
    \/ SetOrderStatus
    \/ Complete
    \/ SetTableStatus

SpecOrderSave == Init /\ [][NextOrderSave]_vars

\* the groups a sequence of events was published to
EventGroups(evs) == {evs[k].group : k \in 1..Len(evs)}

C15_TableFreedOnCompletion ==
    [][(/\ last'.op \in {"order_save", "complete_order"}
        /\ last'.order \in 1..Len(orders)
        /\ orders'[last'.order].status \in {"COMPLETED", "PAID"}
        /\ orders[last'.order].status # orders'[last'.order].status
        /\ orders'[last'.order].table # Null)
       => tables'[orders'[last'.order].table].status \in {"available", "paid"}]_vars

\* ------------------------------------------------------------------------
\* Orders added in the back office with and without a table
\* ------------------------------------------------------------------------

AddOrder ==
    /\ Len(orders) < MaxAddOrders
    /\ \E table \in TableIds \cup {Null} : AdminAddOrder(table)

SetAnyTableStatus ==
    \E t \in TableIds, status \in {"available", "pending"} : AdminSetTableStatus(t, status)

NextAssign ==
    \/ AddOrder
    \/ SetAnyTableStatus
    \/ SetCharges

SpecAssign == Init /\ [][NextAssign]_vars

\* C16: a new Order created with a restaurant but without a table gets the
\* lowest-numbered non-occupied table, which becomes occupied; without any
\* non-occupied table it is saved tableless and no table changes; an order
\* created with a table, and a save of an existing order, is not reassigned.
C16_TableAutoAssigned ==
    [][/\ (last'.op = "order_add" /\ last'.table = Null) =>
            IF \E t \in TableIds : ~is_occupied(t)
            THEN LET t == CHOOSE t \in TableIds :
                            ~is_occupied(t) /\ \A u \in TableIds : ~is_occupied(u) => t <= u
                 IN  /\ orders'[last'.order].table = t
                     /\ tables'[t].status \notin {"available", "paid"}
            ELSE /\ orders'[last'.order].table = Null
                 /\ tables' = tables
       /\ (last'.op = "order_add" /\ last'.table # Null) =>
            /\ orders'[last'.order].table = last'.table
            /\ tables' = tables
       /\ (last'.op = "admin_order") =>
            orders'[last'.order].table = orders[last'.order].table]_vars

\* ------------------------------------------------------------------------
\* Side channels failing: channel layer missing or raising, printers down
\* ------------------------------------------------------------------------

PlaceQrLayer ==
    /\ Len(orders) < MaxKdsOrders
    /\ \E lines \in SeqsUpTo(KdsLines, MaxLines) \ {<< >>}, layer \in {"none", "down"} :
          TableOrderPostLayer(1, lines, layer)

SetOrderStatusLayer ==
    \E o \in 1..Len(orders), status \in OrderStatuses, layer \in {"none", "down"} :
        AdminSetOrderStatusLayer(o, status, layer)

Broadcast ==
    \E ticket_id \in 1..Len(tickets), action \in {"create", "update", "delete"},
       layer \in {"up", "none", "down"}, failing \in SUBSET PrinterTargets :
        BroadcastTicket(ticket_id, action, layer, failing)

NextSide ==
    \/ PlaceKds
    \/ PlaceQrLayer
    \/ SetOrderStatusLayer

SpecSide == Init /\ [][NextSide]_vars

NextPrint ==
    \/ PlaceKds
    \/ Broadcast

SpecPrint == Init /\ [][NextPrint]_vars

\* C17: a failure of the broadcast layer never makes the business operation
\* that triggered it fail: an otherwise valid QR order or Order save still
\* commits its rows and returns success.
C17_SideChannelFailureIsHarmless ==
    [][(last'.op \in {"qr_order", "order_save"} /\ last'.layer # "up" /\ ~last'.req.bad) =>
        /\ last'.result = "success"
        /\ last'.op = "qr_order" => Len(orders') = Len(orders) + 1
        /\ last'.op = "order_save" => orders'[last'.order].status = last'.status]_vars

\* C18: on kitchen-ticket creation a failure to publish does not keep the
\* ticket from the printers, and an unreachable printer does not keep it
\* from the other printers: send_to_printer is called for the kitchen (or
\* drinks) printer and for the POS printer whatever failed.
C18_SideChannelsIsolated ==
    [][(last'.op = "broadcast" /\ last'.action = "create") =>
        last'.printers = {IF MenuItemIsDrink THEN "drinks" ELSE "kitchen", "pos"}]_vars

\* ------------------------------------------------------------------------
\* Staff chat
\* ------------------------------------------------------------------------

ConnectChat ==
    /\ Len(connections) < MaxConns
    /\ \E user_id \in UserIds : ChatConnect(user_id)

ChatTexts == SeqsUpTo({" ", "a"}, MaxText)

ChatPayloads ==
    {[json |-> j, has |-> "absent", text |-> << >>] : j \in {"invalid", "array", "object"}}
    \cup {[json |-> "object", has |-> h, text |-> << >>] : h \in {"null", "number"}}
    \cup {[json |-> "object", has |-> "string", text |-> t] : t \in ChatTexts}

ReceiveChat ==
    /\ Len(chatMessages) < MaxChat
    /\ \A i \in 1..Len(connections) : Len(connections[i].inbox) < MaxInbox
    /\ \E channel \in 1..Len(connections), payload \in ChatPayloads :
          ChatReceive(channel, payload)

NextChat ==
    \/ ConnectChat
    \/ ReceiveChat

SpecChat == Init /\ [][NextChat]_vars

\* C19: a chat connection is admitted (joined to staff_chat, accepted, sent
\* the history) if and only if its user is authenticated and holds one of
\* the roles staff, manager, chef, supervisor; every other connection is
\* closed, joins no group and receives nothing.
C19_ChatAdmitsStaffRoles ==
    [][(last'.op = "chat_connect") =>
        LET c == connections'[Len(connections')]
            user == ChatUser(last'.staff)
            entitled == ~user.is_anonymous /\ Lower(user.role) \in ChatRoles
        IN  /\ entitled => (c.open /\ c.group = "staff_chat" /\ Len(c.inbox) >= 1
                            /\ c.inbox[1].type = "history")
            /\ ~entitled => (~c.open /\ c.group # "staff_chat" /\ c.inbox = << >>
                             /\ sent' = << >>)]_vars

\* a message that is an object holding a string with a non-blank character
WellFormed(payload) ==
    /\ payload.json = "object"
    /\ payload.has = "string"
    /\ \E k \in 1..Len(payload.text) : payload.text[k] # " "

ConnectHistory ==
    /\ Len(connections) < MaxConns
    /\ \E user_id \in UserIds : ChatConnect(user_id)

PostHistory ==
    /\ Len(chatMessages) < MaxHistory
    /\ ChatReceive(1, [json |-> "object", has |-> "string", text |-> <<"a">>])

NextHistory ==
    \/ ConnectHistory
    \/ PostHistory

SpecHistory == Init /\ [][NextHistory]_vars

Min(a, b) == IF a <= b THEN a ELSE b

ConnectMember ==
    /\ Len(connections) < MaxConns
    /\ \/ \E kind \in {"kds", "pos", "orders", "tickets"} : DisplayConnect(kind, Null)
       \/ \E table_id \in TableIds \cup {Null} : DisplayConnect("customer", table_id)
       \/ \E user_id \in UserIds : ChatConnect(user_id)

PostMember ==
    /\ Len(chatMessages) < MaxChat
    /\ \E channel \in 1..Len(connections) :
          ChatReceive(channel, [json |-> "object", has |-> "string", text |-> <<"a">>])

Disconnect ==
    \E channel \in 1..Len(connections) :
        \/ DisplayDisconnect(channel)
        \/ ChatDisconnect(channel)

NextMembership ==
    \/ ConnectMember
    \/ PostMember
    \/ Disconnect

SpecMembership == Init /\ [][NextMembership]_vars

\* C22: for every channel type a connection is a member of its group exactly
\* from its successful connect until its disconnect; after a disconnect, also
\* that of a connection refused at connect, it is a member of no group and
\* receives nothing further, and the disconnect handler does not fail.
C22_MembershipEndsAtDisconnect ==
    /\ [](\A i \in 1..Len(connections) :
            (connections[i].group # "") <=>
                (connections[i].open /\ ~connections[i].disconnected))
    /\ [][\A i \in 1..Len(connections) :
            connections[i].disconnected =>
                connections'[i].inbox = connections[i].inbox]_vars
    /\ [][(last'.op = "ws_disconnect") =>
            /\ last'.result = "success"
            /\ connections'[last'.channel].group = ""
            /\ ~connections'[last'.channel].open]_vars

\* ------------------------------------------------------------------------
\* Requests to the restaurant-scoped admin panels
\* ------------------------------------------------------------------------

\* the users of the data model: the restaurant a person works at belongs
\* to the person's company
AdminUsers ==
    {NoUser} \cup
    {[username |-> "u", authenticated |-> TRUE, is_superuser |-> su, role |-> role,
      company |-> c, restaurant |-> r, perms |-> {}] :
        su \in BOOLEAN, role \in Roles, c \in Companies \cup {Null},
        r \in Restaurants \cup {Null}}

AdminCall ==
    \E u \in AdminUsers, panel \in ScopedPanels, perm \in AdminPerms :
        /\ (u.restaurant # Null => u.company = RestaurantCompany(u.restaurant))
        /\ AdminRequest(u, panel, perm)

NextAdmin ==
    \/ AdminCall

SpecAdmin == Init /\ [][NextAdmin]_vars

C24_ListingScopedToRestaurant ==
    [][(last'.op = "admin_request" /\ last'.perm = "view" /\ last'.result = "success") =>
        LET u == last'.user
        IN  last'.rows =
              IF u.is_superuser \/ u.role = "SUPER_ADMIN" THEN PanelRows(last'.panel)
              ELSE IF u.restaurant # Null THEN {u.restaurant}
              ELSE IF u.company # Null
              THEN {r \in PanelRows(last'.panel) : RestaurantCompany(r) = u.company}
              ELSE {}]_vars

\* ------------------------------------------------------------------------
\* Exports of the chat log
\* ------------------------------------------------------------------------

StaffJoins ==
    /\ connections = << >>
    /\ ChatConnect(4)

StaffPosts ==
    /\ Len(chatMessages) < MaxChat
    /\ ChatReceive(1, [json |-> "object", has |-> "string", text |-> <<"a">>])

\* the staff accounts that can open the chat panel
ExportUsers ==
    {[username |-> n, authenticated |-> TRUE, is_superuser |-> su, role |-> "CASHIER",
      company |-> Null, restaurant |-> Null, perms |-> ps] :
        n \in {"ann", "bob"}, su \in BOOLEAN,
        ps \in {{}, {"core.view_chatmessage"}, {"core.change_chatmessage"}}}

Export ==
    /\ Len(auditLog) < MaxExports
    /\ \E u \in ExportUsers, queryset \in SUBSET (1..Len(chatMessages)) :
          ExportSelectedToCsv(u, queryset)

NextExport ==
    \/ StaffJoins
    \/ StaffPosts
    \/ Export

SpecExport == Init /\ [][NextExport]_vars

\* C25: a caller of the chat CSV export who is neither a superuser nor holds
\* the chat-view permission gets no file and no message rows, and no audit
\* line is written; an authorized export returns the CSV and appends exactly
\* one audit line recording the exporter and the number of messages exported.
C25_ExportAuditedOnlyWhenAuthorized ==
    [][(last'.op = "chat_export") =>
        LET u == last'.user
        IN  IF ~u.is_superuser /\ "core.view_chatmessage" \notin u.perms
            THEN /\ last'.result = "refused"
                 /\ last'.rows = {}
                 /\ auditLog' = auditLog
            ELSE /\ last'.result = "success"
                 /\ last'.rows # {}
                 /\ Len(auditLog') = Len(auditLog) + 1
                 /\ SubSeq(auditLog', 1, Len(auditLog)) = auditLog
                 /\ auditLog'[Len(auditLog')] =
                        [user |-> u.username, count |-> Cardinality(last'.rows)]]_vars

\* a refused export followed an audited export of two messages
C25_Witness ==
    /\ last.op = "chat_export"
    /\ last.result = "refused"
    /\ Len(auditLog) = 1
    /\ auditLog[1].count = 2

\* ------------------------------------------------------------------------
\* Loyalty credits
\* ------------------------------------------------------------------------

\* spends of 0.00, 7.00, 9.99, 10.00 and 47.00
AmountVals == {0, 700, 999, 1000, 4700}

Credit ==
    \E c \in CustomerIds, amount \in AmountVals :
        /\ customers[c].total_spent + amount <= MaxSpent
        /\ add_points(c, amount)

NextLoyalty ==
    \/ Credit

SpecLoyalty == Init /\ [][NextLoyalty]_vars

\* C26: crediting a customer with a spend of a currency units adds
\* floor(a / 10) to loyalty_points and exactly a to total_spent, both in the
\* same update, and leaves the other customers alone; so after any sequence
\* of credits loyalty_points is the sum of the per-credit floors and
\* total_spent the sum of the amounts.
C26_LoyaltyAccrual ==
    /\ [][(last'.op = "add_points") =>
            LET c == last'.customer
                a == last'.amount
                whole == CHOOSE q \in 0..(a \div 100) :
                            q * 1000 <= a /\ a < (q + 1) * 1000
            IN  /\ customers'[c].loyalty_points = customers[c].loyalty_points + whole
                /\ customers'[c].total_spent = customers[c].total_spent + a
                /\ \A d \in CustomerIds : d # c => customers'[d] = customers[d]]_vars
    /\ [](\A c \in CustomerIds :
            /\ customers[c].loyalty_points * 1000 <= customers[c].total_spent
            /\ customers[c].loyalty_points >= 0)

\* two spends of 7.00 and one of 47.00 left 61.00 spent and 4 points, where
\* the total alone would make 6
C26_Witness ==
    /\ last.op = "add_points"
    /\ \E c \in CustomerIds :
          /\ customers[c].total_spent = 6100
          /\ customers[c].loyalty_points = 4

\* ------------------------------------------------------------------------
\* Ticket status updates by two concurrent requests
\* ------------------------------------------------------------------------

TicketStart ==
    \E p \in Procs, ticket_id \in 1..Len(tickets), new_status \in TicketStatuses :
        TicketBegin(p, ticket_id, new_status)

TicketWrite == \E p \in Procs : TicketSave(p)

TicketTest == \E p \in Procs : TicketCheck(p)

TicketEnd == \E p \in Procs : TicketCommit(p)

NextTicketRace ==
    \/ PlaceKds
    \/ TicketStart
    \/ TicketWrite
    \/ TicketTest
    \/ TicketEnd

SpecTicketRace == Init /\ [][NextTicketRace]_vars

\* the two requests have ended, and they set the last two tickets of order o
\* that were not ready to READY
LastTwoSetReady(o) ==
    /\ \A p \in Procs :
          /\ reqs[p].pc = "tk_done"
          /\ reqs[p].order = o
          /\ reqs[p].new_status = TicketStatusReady
          /\ reqs[p].was # TicketStatusReady
    /\ reqs[1].ticket_id # reqs[2].ticket_id
    /\ TicketsComplete(tickets, o)

StockStart ==
    /\ Len(orders) < MaxStockOrders
    /\ \E p \in Procs, table_id \in TableIds, m \in MenuIds, q \in 1..MaxQty :
          StockItemCreate(p, table_id, m, q)

StockEnd == \E p \in Procs : StockSave(p)

NextStockRace ==
    \/ StockStart
    \/ StockEnd

SpecStockRace == Init /\ [][NextStockRace]_vars

\* C28: inventory decrements lose no update under concurrency: once the
\* requests that created OrderItems have ended, every ingredient holds
\* max(0, initial quantity - the amounts used by all OrderItems), as if the
\* deductions had run one after the other.
C28_NoLostStockUpdate ==
    (\A p \in Procs : reqs[p].pc = "idle") =>
        \A i \in Ingredients :
            inventory[i] = Max(InitStock(i) - Demand(i, Len(orderItems)), 0)

\* ------------------------------------------------------------------------
\* Payment captures and ticket status updates on the same order
\* ------------------------------------------------------------------------

PayAgain ==
    /\ Len(payments) < MaxPayments
    /\ Pay

NextPaidOrder ==
    \/ PlacePay
    \/ SetTableStatus
    \/ PayAgain
    \/ UpdateTicket

SpecPaidOrder == Init /\ [][NextPaidOrder]_vars

====
